---------------------------- MODULE Spec2Model ----------------------------
(***************************************************************************)
(* A model of the E.V.E. master controller's supervision subsystem:        *)
(*   - master_controller/master_failover.py   (leader election / monitor)  *)
(*   - master_controller/response_cache.py    (ResponseCache)              *)
(*   - master_controller/task_queue.py        (SmartTaskQueue)             *)
(*   - master_controller/worker_health_monitor.py (WorkerHealthMonitor)    *)
(*   - master_controller/ai_router.py + core/database.py (routing, tasks)  *)
(* Each component has its own next-state relation and specification; all   *)
(* share the initial state (every component freshly constructed).          *)
(***************************************************************************)
EXTENDS Integers, Sequences, FiniteSets, TLC

VARIABLES
    now,              \* wall clock, in seconds (time.time() / datetime.now())
    \* ---- master_failover.py ----
    failover_enabled, \* ENABLE_MASTER_FAILOVER of the deployment
    mpc,              \* per replica: "new" | "constructed" | "monitoring" | "crashed"
    is_active,        \* MasterState.is_active per replica
    last_heartbeat,   \* MasterState.last_heartbeat per replica (None before the first)
    elected,          \* result of the replica's latest elect_leader() (None before)
    \* ---- response_cache.py ----
    cache,            \* ResponseCache.cache: the entries, in dict (insertion) order
    stats,            \* ResponseCache.stats
    lastSet,          \* history: per key, the latest set(k, v) and its time
    got,              \* history: the cache call just made (at time now), what it saw and returned
    \* ---- task_queue.py ----
    queue,            \* SmartTaskQueue.queue: the heapq array, of task ids
    tasks,            \* the Task objects ever created, by task id
    task_map,         \* SmartTaskQueue.task_map (its key set)
    processing,       \* SmartTaskQueue.processing
    dispatched,       \* history: per task id, how often dequeue handed it out
    qret,             \* history: the queue call just made and what it returned
    \* ---- database.py / ai_router.py / worker_health_monitor.py ----
    db,               \* the PostgreSQL tables (one field per table)
    worker_health,    \* WorkerHealthMonitor.worker_health
    routed,           \* history: the routing call just made and what it saw
    \* ---- threads inside response_cache.py ----
    cthreads,         \* per thread: position in its call, locals, exception raised
    \* ---- elect_leader on a given heartbeat table ----
    election,          \* history: the election just held, its table and its result
    \* ---- task_planner.py ----
    plan,               \* history: the plan_task call just made, the oracle reply and the plan
    \* ---- context_manager.py ----
    ctx,  \* history: the get_smart_context call just made, its verdict and its context
    \* ---- register_agent with any arguments ----
    reg,  \* history: the register_agent call just made and its arguments
    \* ---- cancelling a queued task ----
    cancelled,  \* history: the queued tasks on which cancel was called
    \* ---- performance_tracker.py ----
    metrics,  \* PerformanceTracker.metrics of one worker
    \* ---- is_worker_healthy ----
    tracked,  \* history: the is_worker_healthy call just made and its result
    \* ---- task_queue.py: the condition variable ----
    cond,  \* SmartTaskQueue.not_empty and the consumers in dequeue
    \* ---- ai_router.py: draining the task queue ----
    pool,  \* the database tables behind process_queued_tasks
    \* ---- ai_router.py: concurrent route_with_fallback calls ----
    routers,  \* per controller process: where it is in route_with_fallback, and its locals
    \* ---- performance_tracker.py: the rolling histories ----
    arrivals  \* history: every duration, outcome and quality score logged, in arrival order

failoverVars == <<failover_enabled, mpc, is_active, last_heartbeat, elected>>
cacheVars == <<cache, stats, lastSet, got>>
queueVars == <<queue, tasks, task_map, processing, dispatched, qret>>
routerVars == <<db, worker_health, routed>>

vars == <<now, failoverVars, cacheVars, queueVars, routerVars, cthreads, election, plan, ctx, reg, cancelled, metrics, tracked, cond, pool, routers, arrivals>>

\* What each component's actions leave alone
nonFailoverVars == <<cacheVars, queueVars, routerVars, cthreads, election, plan, ctx, reg, cancelled, metrics, tracked, cond, pool, routers, arrivals>>
nonCacheVars == <<failoverVars, queueVars, routerVars, cthreads, election, plan, ctx, reg, cancelled, metrics, tracked, cond, pool, routers, arrivals>>
nonQueueVars == <<failoverVars, cacheVars, routerVars, cthreads, election, plan, ctx, reg, cancelled, metrics, tracked, cond, pool, routers, arrivals>>
nonRouterVars == <<failoverVars, cacheVars, queueVars, cthreads, election, plan, ctx, reg, cancelled, metrics, tracked, cond, pool, routers, arrivals>>
nonConcVars == <<failoverVars, queueVars, routerVars, election, plan, ctx, reg, cancelled, metrics, tracked, cond, pool, routers, arrivals>>
nonElectVars == <<failoverVars, cacheVars, queueVars, routerVars, cthreads, plan, ctx, reg, cancelled, metrics, tracked, cond, pool, routers, arrivals>>
nonPlanVars == <<failoverVars, cacheVars, queueVars, routerVars, cthreads, election, ctx, reg, cancelled, metrics, tracked, cond, pool, routers, arrivals>>
nonCtxVars == <<failoverVars, cacheVars, queueVars, routerVars, cthreads, election, plan, reg, cancelled, metrics, tracked, cond, pool, routers, arrivals>>
nonRouterRegVars == <<failoverVars, cacheVars, queueVars, cthreads, election, plan, ctx, cancelled, metrics, tracked, cond, pool, routers, arrivals>>
nonQueueCancelVars == <<failoverVars, cacheVars, routerVars, cthreads, election, plan, ctx, reg, metrics, tracked, cond, pool, routers, arrivals>>
nonTrackerVars == <<failoverVars, cacheVars, queueVars, routerVars, cthreads, election, plan, ctx, reg, cancelled, cond, pool, routers, arrivals>>
nonQueueCondVars == <<failoverVars, cacheVars, routerVars, cthreads, election, plan, ctx, reg, cancelled, metrics, tracked, pool, routers, arrivals>>
nonPoolVars == <<failoverVars, cacheVars, queueVars, routerVars, cthreads, election, plan, ctx, reg, cancelled, metrics, tracked, cond, routers, arrivals>>
nonRaceVars == <<failoverVars, cacheVars, queueVars, routerVars, cthreads, election, plan, ctx, reg, cancelled, metrics, tracked, cond, arrivals>>
nonHistoryVars == <<failoverVars, cacheVars, queueVars, routerVars, cthreads, election, plan, ctx, reg, cancelled, tracked, cond, pool, routers>>

None == -1                 \* Python's None, where a number is expected
NoValue == "None"          \* Python's None, where a string is expected
NoCall == [op |-> "none"]  \* no call made at the current time

Min(S) == CHOOSE x \in S : \A y \in S : x <= y

(***************************************************************************)
(* ---------------------------  LEADER MONITOR  -------------------------- *)
(* Replica ids are the numbers n of "master-n" (n < 10, so that numeric    *)
(* order is the lexicographic order list.sort() uses on the id strings).   *)
(***************************************************************************)
NumMasters == 2
Masters == 1..NumMasters

MASTER_HEARTBEAT_INTERVAL == 5
MASTER_TIMEOUT == 15
FailoverStep == 5          \* granularity of the clock in the failover runs
FailoverMaxTime == 30

\* database.py: register_master / update_master_heartbeat / set_active_master
\* are no-ops: no replica row is ever written.
register_master(m) == TRUE
update_master_heartbeat(m) == TRUE
set_active_master(m) == TRUE

\* A mutant: the heartbeat table returns one active row per replica id.
get_all_masters_Mut(t) ==
    [i \in 1..NumMasters |->
        [master_id |-> i, active |-> TRUE, last_heartbeat |-> t]]

\* database.py get_all_masters(): always the one fixed row, stamped "now".
get_all_masters(t) ==
    << [master_id |-> 1, active |-> TRUE, last_heartbeat |-> t] >>

\* A last_heartbeat that is not a timestamp: text datetime.fromisoformat
\* rejects (ValueError), a value that is not text, or a timestamp without
\* an offset, which cannot be subtracted from now (TypeError)
Malformed == -2

\* datetime.fromisoformat(last_beat_str) and the subtraction from now go
\* through: the value is there (not None, not '') and no exception is caught
Parses(h) == h # None /\ h # Malformed

\* A mutant: the except clause counts the replica as just seen.
HbAlive_Mut(rec, t) ==
    /\ rec.last_heartbeat # None
    /\ rec.last_heartbeat = Malformed \/ t - rec.last_heartbeat < MASTER_TIMEOUT

\* The test elect_leader makes on a row: a heartbeat that parses, of an age
\* below MASTER_TIMEOUT.
HbAlive(rec, t) ==
    /\ Parses(rec.last_heartbeat)
    /\ t - rec.last_heartbeat < MASTER_TIMEOUT

\* A mutant: the election ignores the active flag.
elect_among_NoSticky(all_masters, self, t) ==
    LET alive_masters == {all_masters[i].master_id : i \in
                            {j \in DOMAIN all_masters : HbAlive(all_masters[j], t)}}
    IN  IF all_masters = <<>> THEN self
        ELSE IF alive_masters # {} THEN Min(alive_masters)
        ELSE self

\* A mutant: the first live replica of the table is elected, not the smallest.
elect_among_First(all_masters, self, t) ==
    LET activeAlive == {i \in DOMAIN all_masters :
                            all_masters[i].active /\ HbAlive(all_masters[i], t)}
        alive == {j \in DOMAIN all_masters : HbAlive(all_masters[j], t)}
    IN  IF all_masters = <<>> THEN self
        ELSE IF activeAlive # {} THEN all_masters[Min(activeAlive)].master_id
        ELSE IF alive # {} THEN all_masters[Min(alive)].master_id
        ELSE self

\* master_failover.py elect_leader() from line 97 on: the rules, applied to
\* the rows all_masters by the replica whose MASTER_ID is self
elect_among(all_masters, self, t) ==
    LET activeAlive == {i \in DOMAIN all_masters :
                            all_masters[i].active /\ HbAlive(all_masters[i], t)}
        alive_masters == {all_masters[i].master_id : i \in
                            {j \in DOMAIN all_masters : HbAlive(all_masters[j], t)}}
    IN  IF all_masters = <<>> THEN self
        ELSE IF activeAlive # {} THEN all_masters[Min(activeAlive)].master_id
        ELSE IF alive_masters # {} THEN Min(alive_masters)
        ELSE self

\* master_failover.py elect_leader(), run by the replica whose MASTER_ID is self
elect_leader(self, t) == elect_among(get_all_masters(t), self, t)

\* A mutant: the single-master mode is forgotten.
should_process_request_Mut(m) == is_active[m]

\* master_failover.py should_process_request()
should_process_request(m) ==
    IF ~failover_enabled THEN TRUE ELSE is_active[m]

\* MasterState.__init__: register, immediate heartbeat, standby
Construct(m) ==
    /\ mpc[m] = "new"
    /\ register_master(m)
    /\ update_master_heartbeat(m)
    /\ mpc' = [mpc EXCEPT ![m] = "constructed"]
    /\ is_active' = [is_active EXCEPT ![m] = FALSE]
    /\ last_heartbeat' = [last_heartbeat EXCEPT ![m] = now]
    /\ UNCHANGED <<now, failover_enabled, elected, nonFailoverVars>>

\* failover_monitor() up to its loop: single-master mode becomes active at once
MonitorStart(m) ==
    /\ mpc[m] = "constructed"
    /\ mpc' = [mpc EXCEPT ![m] = "monitoring"]
    /\ IF ~failover_enabled
         THEN /\ set_active_master(m)
              /\ is_active' = [is_active EXCEPT ![m] = TRUE]
         ELSE UNCHANGED is_active
    /\ UNCHANGED <<now, failover_enabled, last_heartbeat, elected, nonFailoverVars>>

\* The loop body when failover is disabled: heartbeat only
HeartbeatOnly(m) ==
    /\ mpc[m] = "monitoring"
    /\ ~failover_enabled
    /\ update_master_heartbeat(m)
    /\ last_heartbeat' = [last_heartbeat EXCEPT ![m] = now]
    /\ UNCHANGED <<now, failover_enabled, mpc, is_active, elected, nonFailoverVars>>

\* One iteration of the monitor loop: heartbeat, election, self-transition.
\* Iterations of one replica are MASTER_HEARTBEAT_INTERVAL apart (the sleep);
\* the first one follows the start at once.
MonitorTick(m) ==
    /\ mpc[m] = "monitoring"
    /\ failover_enabled
    /\ elected[m] = None \/ now - last_heartbeat[m] >= MASTER_HEARTBEAT_INTERVAL
    /\ update_master_heartbeat(m)
    /\ last_heartbeat' = [last_heartbeat EXCEPT ![m] = now]
    /\ LET elected_leader == elect_leader(m, now)
       IN  /\ elected' = [elected EXCEPT ![m] = elected_leader]
           /\ IF elected_leader = m
                THEN IF ~is_active[m]
                       THEN /\ set_active_master(m)
                            /\ is_active' = [is_active EXCEPT ![m] = TRUE]
                       ELSE UNCHANGED is_active
                ELSE IF is_active[m]
                       THEN is_active' = [is_active EXCEPT ![m] = FALSE]
                       ELSE UNCHANGED is_active
    /\ UNCHANGED <<now, failover_enabled, mpc, nonFailoverVars>>

\* The replica's process is killed; its state is frozen.
Crash(m) ==
    /\ mpc[m] \in {"constructed", "monitoring"}
    /\ mpc' = [mpc EXCEPT ![m] = "crashed"]
    /\ UNCHANGED <<now, failover_enabled, is_active, last_heartbeat, elected, nonFailoverVars>>

FailoverClock ==
    /\ now + FailoverStep <= FailoverMaxTime
    /\ now' = now + FailoverStep
    /\ UNCHANGED <<failoverVars, nonFailoverVars>>

\* The heartbeat tables an election is held on: rows of distinct replicas in
\* any order, each flagged active or not, with no heartbeat, a malformed one
\* or one of a few ages around MASTER_TIMEOUT
ElectAges == {0, MASTER_TIMEOUT - FailoverStep, MASTER_TIMEOUT}
MasterRows(t) ==
    {[master_id |-> i, active |-> a, last_heartbeat |-> h] :
        i \in Masters, a \in BOOLEAN,
        h \in {None, Malformed} \cup {t - g : g \in {x \in ElectAges : x <= t}}}
RECURSIVE MasterTables(_, _)
MasterTables(n, t) ==
    IF n = 0 THEN {<<>>}
    ELSE LET shorter == MasterTables(n - 1, t)
         IN  shorter \cup
             {Append(tb, r) : tb \in {x \in shorter : Len(x) = n - 1},
                              r \in MasterRows(t)}
IdsDistinct(tb) ==
    \A i, j \in DOMAIN tb : tb[i].master_id = tb[j].master_id => i = j

NoElection ==
    [op |-> "none", all_masters |-> <<>>, self |-> None, at |-> None,
     result |-> None]

\* elect_leader() run by replica self, get_all_masters() returning any of
\* the tables (one election is recorded per clock value: an election reads
\* the table and the clock only, so each may start from the blank record)
ElectLeader(self) ==
    /\ election = NoElection
    /\ \E all_masters \in {tb \in MasterTables(NumMasters, now) : IdsDistinct(tb)} :
          /\ election' = [op |-> "elect", all_masters |-> all_masters,
                          self |-> self, at |-> now,
                          result |-> elect_among(all_masters, self, now)]
          /\ UNCHANGED <<now, nonElectVars>>

ElectClock ==
    /\ now + FailoverStep <= FailoverMaxTime
    /\ now' = now + FailoverStep
    /\ election' = NoElection
    /\ UNCHANGED nonElectVars

InitElect == election = NoElection

NextElect ==
    \/ \E self \in Masters : ElectLeader(self)
    \/ ElectClock

InitFailover ==
    /\ failover_enabled = TRUE
    /\ mpc = [m \in Masters |-> "new"]
    /\ is_active = [m \in Masters |-> FALSE]
    /\ last_heartbeat = [m \in Masters |-> None]
    /\ elected = [m \in Masters |-> None]

NextFailover ==
    \/ \E m \in Masters : Construct(m)
    \/ \E m \in Masters : MonitorStart(m)
    \/ \E m \in Masters : HeartbeatOnly(m)
    \/ \E m \in Masters : MonitorTick(m)
    \/ \E m \in Masters : Crash(m)
    \/ FailoverClock

(***************************************************************************)
(* ---------------------------  RESPONSE CACHE  -------------------------- *)
(* Strings are sequences of one-character strings.  A context of None and  *)
(* an empty context are both falsy in _hash_query and are both <<>> here.  *)
(* md5 is taken to be injective: a key is the normalized text it hashes.   *)
(***************************************************************************)
TTL == 1                   \* ttl_seconds of the instance
MAX_ENTRIES == 2           \* max_entries of the instance
CacheMaxTime == 2
CacheMaxGets == 2          \* cap on hits + misses
CacheMaxEvictions == 2     \* cap on the evictions counter

CacheMessages == { <<"A", " ">>, <<"a", "b">> }
CacheContexts == { <<>>, <<" ", "B">> }
CacheResponses == {"r1", "r2"}

\* str.lower() on the alphabet used
LowerChar(ch) == IF ch = "A" THEN "a" ELSE IF ch = "B" THEN "b" ELSE ch
lower(str) == [i \in 1..Len(str) |-> LowerChar(str[i])]

\* str.strip(): drop leading and trailing blanks
RECURSIVE lstrip(_)
lstrip(str) == IF str # <<>> /\ Head(str) = " " THEN lstrip(Tail(str)) ELSE str
RECURSIVE rstrip(_)
rstrip(str) ==
    IF str # <<>> /\ str[Len(str)] = " "
      THEN rstrip(SubSeq(str, 1, Len(str) - 1)) ELSE str
strip(str) == rstrip(lstrip(str))

\* ResponseCache._hash_query
hash_query(message, context) ==
    LET normalized == strip(lower(message))
    IN  IF context # <<>> THEN normalized \o strip(lower(context)) ELSE normalized

CacheKeySet == {hash_query(m, c) : m \in CacheMessages, c \in CacheContexts}

KeysOf(entries) == {entries[i].key : i \in DOMAIN entries}
IndexOf(entries, k) == CHOOSE i \in DOMAIN entries : entries[i].key = k
EntryOf(entries, k) == entries[IndexOf(entries, k)]

\* A mutant: the delete is forgotten.
DelKey_Mut(entries, k) == entries

\* del self.cache[k]
DelKey(entries, k) ==
    LET i == IndexOf(entries, k)
    IN  SubSeq(entries, 1, i - 1) \o SubSeq(entries, i + 1, Len(entries))

\* A mutant: the expiry test is off by one second.
Expired_Mut(age) == age > TTL + 1

\* response_cache.py line 48 / 96: the expiry test
Expired(age) == age > TTL

\* A mutant: the newest entry is evicted.
OldestKey_Mut(entries) ==
    LET i == CHOOSE i \in DOMAIN entries :
                 \A j \in DOMAIN entries : entries[j].timestamp <= entries[i].timestamp
    IN  entries[i].key

\* min(self.cache.keys(), key=timestamp): the first key, in dict order, of
\* minimal timestamp
OldestKey(entries) ==
    LET i == CHOOSE i \in DOMAIN entries :
                 /\ \A j \in DOMAIN entries : entries[i].timestamp <= entries[j].timestamp
                 /\ \A j \in 1..(i - 1) : entries[j].timestamp > entries[i].timestamp
    IN  entries[i].key

\* self.cache[k] = entry: an existing key keeps its place in the dict order
PutKey(entries, e) ==
    IF e.key \in KeysOf(entries)
      THEN [entries EXCEPT ![IndexOf(entries, e.key)] = e]
      ELSE Append(entries, e)

\* get that counts the eviction of an expired entry but not the miss
get_Mut(c, message, context, t) ==
    LET query_hash == hash_query(message, context)
    IN  IF query_hash \in KeysOf(c.cache)
          THEN LET entry == EntryOf(c.cache, query_hash)
                   age == t - entry.timestamp
               IN  IF Expired(age)
                     THEN [cache |-> DelKey(c.cache, query_hash),
                           stats |-> [c.stats EXCEPT !.evictions = @ + 1],
                           result |-> NoValue]
                     ELSE [cache |-> [c.cache EXCEPT
                                        ![IndexOf(c.cache, query_hash)].hit_count = @ + 1],
                           stats |-> [c.stats EXCEPT !.hits = @ + 1,
                                                     !.total_saved_calls = @ + 1],
                           result |-> entry.response]
          ELSE [cache |-> c.cache,
                stats |-> [c.stats EXCEPT !.misses = @ + 1],
                result |-> NoValue]

\* ResponseCache.get on the state c = [cache, stats] at time t:
\* the new state and the value returned
get(c, message, context, t) ==
    LET query_hash == hash_query(message, context)
    IN  IF query_hash \in KeysOf(c.cache)
          THEN LET entry == EntryOf(c.cache, query_hash)
                   age == t - entry.timestamp
               IN  IF Expired(age)
                     THEN [cache |-> DelKey(c.cache, query_hash),
                           stats |-> [c.stats EXCEPT !.evictions = @ + 1,
                                                     !.misses = @ + 1],
                           result |-> NoValue]
                     ELSE [cache |-> [c.cache EXCEPT
                                        ![IndexOf(c.cache, query_hash)].hit_count = @ + 1],
                           stats |-> [c.stats EXCEPT !.hits = @ + 1,
                                                     !.total_saved_calls = @ + 1],
                           result |-> entry.response]
          ELSE [cache |-> c.cache,
                stats |-> [c.stats EXCEPT !.misses = @ + 1],
                result |-> NoValue]

\* Whether set finds the cache full and the key new (it then evicts)
SetEvicts(c, message, context) ==
    Len(c.cache) >= MAX_ENTRIES /\ hash_query(message, context) \notin KeysOf(c.cache)

\* ResponseCache.set
set(c, message, response, context, t) ==
    LET query_hash == hash_query(message, context)
        evict == SetEvicts(c, message, context)
        kept == IF evict THEN DelKey(c.cache, OldestKey(c.cache)) ELSE c.cache
        \* (query_preview, a display copy of the message, is not kept)
        entry == [key |-> query_hash, response |-> response, timestamp |-> t,
                  hit_count |-> 0]
    IN  [cache |-> PutKey(kept, entry),
         stats |-> IF evict THEN [c.stats EXCEPT !.evictions = @ + 1] ELSE c.stats]

\* The expired keys, in dict order
RECURSIVE ExpiredKeys(_, _)
ExpiredKeys(entries, t) ==
    IF entries = <<>> THEN <<>>
    ELSE (IF Expired(t - Head(entries).timestamp) THEN <<Head(entries).key>> ELSE <<>>)
         \o ExpiredKeys(Tail(entries), t)

RECURSIVE DelKeys(_, _)
DelKeys(entries, ks) ==
    IF ks = <<>> THEN entries ELSE DelKeys(DelKey(entries, Head(ks)), Tail(ks))

\* ResponseCache.clear_expired
clear_expired(c, t) ==
    LET expired_keys == ExpiredKeys(c.cache, t)
    IN  [cache |-> DelKeys(c.cache, expired_keys),
         stats |-> [c.stats EXCEPT !.evictions = @ + Len(expired_keys)],
         result |-> Len(expired_keys)]

CacheState == [cache |-> cache, stats |-> stats]

MinTimestamp(entries) ==
    IF entries = <<>> THEN None ELSE Min({entries[i].timestamp : i \in DOMAIN entries})

NoSet == [response |-> NoValue, at |-> None]

CacheGet(message, context) ==
    /\ stats.hits + stats.misses < CacheMaxGets
    /\ stats.evictions < CacheMaxEvictions
    /\ LET r == get(CacheState, message, context, now)
           k == hash_query(message, context)
       IN  /\ cache' = r.cache
           /\ stats' = r.stats
           /\ got' = [op |-> "get", key |-> k,
                      message |-> message, context |-> context,
                      found |-> k \in KeysOf(cache),
                      age |-> IF k \in KeysOf(cache)
                                THEN now - EntryOf(cache, k).timestamp ELSE None,
                      result |-> r.result]
    /\ UNCHANGED <<now, lastSet, nonCacheVars>>

CacheSet(message, response, context) ==
    /\ SetEvicts(CacheState, message, context) => stats.evictions < CacheMaxEvictions
    /\ LET r == set(CacheState, message, response, context, now)
           k == hash_query(message, context)
       IN  /\ cache' = r.cache
           /\ stats' = r.stats
           /\ lastSet' = [lastSet EXCEPT ![k] = [response |-> response, at |-> now,
                                                 message |-> message,
                                                 context |-> context]]
           /\ got' = [op |-> "set", key |-> k,
                      len_before |-> Len(cache),
                      present_before |-> k \in KeysOf(cache),
                      min_before |-> MinTimestamp(cache),
                      gone |-> {e \in {cache[i] : i \in DOMAIN cache} :
                                   e.key \notin KeysOf(r.cache)}]
    /\ UNCHANGED <<now, nonCacheVars>>

ClearExpired ==
    /\ LET r == clear_expired(CacheState, now)
       IN  /\ stats.evictions + r.result <= CacheMaxEvictions
           /\ cache' = r.cache
           /\ stats' = r.stats
           /\ got' = [op |-> "clear_expired", result |-> r.result]
    /\ UNCHANGED <<now, lastSet, nonCacheVars>>

CacheClock ==
    /\ now < CacheMaxTime
    /\ now' = now + 1
    /\ got' = NoCall
    /\ UNCHANGED <<cache, stats, lastSet, nonCacheVars>>

InitCache ==
    /\ cache = <<>>
    /\ stats = [hits |-> 0, misses |-> 0, evictions |-> 0, total_saved_calls |-> 0]
    /\ lastSet = [k \in CacheKeySet |-> NoSet]
    /\ got = NoCall

NextCache ==
    \/ \E m \in CacheMessages, c \in CacheContexts : CacheGet(m, c)
    \/ \E m \in CacheMessages, c \in CacheContexts, r \in CacheResponses :
          CacheSet(m, r, c)
    \/ ClearExpired
    \/ CacheClock

(***************************************************************************)
(* ---------------------------  SMART TASK QUEUE  ------------------------ *)
(* The heap holds references to Task objects: it is a sequence of task     *)
(* ids, and tasks[id] is the (mutable) object.  A task id is the number of *)
(* the enqueue that created it (uuid4 in the code: fresh each time).       *)
(* task_type, payload and callback are carried but never read; they are    *)
(* not kept.  Heap positions are 0-based as in heapq: h[p + 1] is heap[p]. *)
(* The queue runs take no time: every Task.timestamp is the same instant.  *)
(***************************************************************************)
QUEUE_MAX_SIZE == 3        \* max_size of the instance
QueueMaxTasks == 3         \* cap on the number of tasks ever enqueued
QueuePriorities == {1, 2}  \* Priority.HIGH, Priority.NORMAL
QueueRetryChoices == {0, 1}
TaskIds == 1..QueueMaxTasks

\* Task.__lt__ (dataclass order=True, priority the only compared field)
TaskLess(ts, a, b) == ts[a].priority < ts[b].priority

\* heapq._siftdown, from the point where newitem has been read
RECURSIVE SiftDownLoop(_, _, _, _, _)
SiftDownLoop(ts, h, startpos, pos, newitem) ==
    IF pos > startpos
      THEN LET parentpos == (pos - 1) \div 2
               parent == h[parentpos + 1]
           IN  IF TaskLess(ts, newitem, parent)
                 THEN SiftDownLoop(ts, [h EXCEPT ![pos + 1] = parent],
                                   startpos, parentpos, newitem)
                 ELSE [h EXCEPT ![pos + 1] = newitem]
      ELSE [h EXCEPT ![pos + 1] = newitem]

\* heapq._siftup's loop: the hole at pos moves down to a leaf
RECURSIVE SiftUpLoop(_, _, _)
SiftUpLoop(ts, h, pos) ==
    LET endpos == Len(h)
        childpos == 2 * pos + 1
        rightpos == childpos + 1
    IN  IF childpos < endpos
          THEN LET c == IF rightpos < endpos
                           /\ ~TaskLess(ts, h[childpos + 1], h[rightpos + 1])
                          THEN rightpos ELSE childpos
               IN  SiftUpLoop(ts, [h EXCEPT ![pos + 1] = h[c + 1]], c)
          ELSE [heap |-> h, pos |-> pos]

\* heapq.heappush(heap, item)
heappush(ts, h, item) == SiftDownLoop(ts, Append(h, item), 0, Len(h), item)

\* heapq.heappop(heap): the item returned and the heap left
heappop(ts, h) ==
    LET lastelt == h[Len(h)]
        rest == SubSeq(h, 1, Len(h) - 1)
    IN  IF rest = <<>>
          THEN [item |-> lastelt, heap |-> <<>>]
          ELSE LET down == SiftUpLoop(ts, [rest EXCEPT ![1] = lastelt], 0)
               IN  [item |-> rest[1],
                    heap |-> SiftDownLoop(ts, down.heap, 0, down.pos, lastelt)]

\* A mutant: one retry too many.
MayRetry_Mut(task) == task.retry_count <= task.max_retries

\* task_queue.py line 91: whether a failed task is queued again
MayRetry(task) == task.retry_count < task.max_retries

QueueState == <<queue, task_map, processing>>

\* threading.Condition.notify(): release the first waiter, if any
notify(cd) ==
    IF cd.waiters = <<>> THEN cd
    ELSE LET c == Head(cd.waiters)
         IN  [cd EXCEPT !.waiters = Tail(@),
                        !.pc[c] = IF @ = "waiting" THEN "notified" ELSE @]

\* SmartTaskQueue.enqueue(task_type, payload, priority, callback, max_retries)
Enqueue(priority, max_retries) ==
    IF Len(queue) >= QUEUE_MAX_SIZE
      THEN \* raise Exception("Queue is full")
           /\ qret' = [op |-> "enqueue", len_before |-> Len(queue),
                       raised |-> TRUE, changed |-> FALSE]
           /\ UNCHANGED <<now, queue, tasks, task_map, processing, dispatched,
                          nonQueueVars>>
      ELSE /\ Len(tasks) < QueueMaxTasks
           /\ cond' = notify(cond)
           /\ LET id == Len(tasks) + 1
                  task == [priority |-> priority, timestamp |-> now,
                           max_retries |-> max_retries, retry_count |-> 0]
                  ts == Append(tasks, task)
              IN  /\ tasks' = ts
                  /\ queue' = heappush(ts, queue, id)
                  /\ task_map' = task_map \cup {id}
                  /\ dispatched' = Append(dispatched, 0)
           /\ qret' = [op |-> "enqueue", len_before |-> Len(queue),
                       raised |-> FALSE, changed |-> TRUE]
           /\ UNCHANGED <<now, processing, nonQueueCondVars>>

\* SmartTaskQueue.dequeue() with a task waiting
Dequeue ==
    /\ queue # <<>>
    /\ LET r == heappop(tasks, queue)
       IN  /\ queue' = r.heap
           /\ processing' = processing \cup {r.item}
           /\ dispatched' = [dispatched EXCEPT ![r.item] = @ + 1]
           /\ qret' = [op |-> "dequeue", ret |-> r.item]
    /\ UNCHANGED <<now, tasks, task_map, nonQueueVars>>

\* SmartTaskQueue.dequeue(timeout) whose wait ends with the queue still empty
DequeueTimeout ==
    /\ queue = <<>>
    /\ qret' = [op |-> "dequeue", ret |-> None]
    /\ UNCHANGED <<now, queue, tasks, task_map, processing, dispatched, nonQueueVars>>

\* SmartTaskQueue.mark_complete(task_id, success)
MarkComplete(task_id, success) ==
    /\ processing' = processing \ {task_id}
    /\ IF task_id \in task_map
         THEN LET task == tasks[task_id]
              IN  IF ~success /\ MayRetry(task)
                    THEN /\ tasks' = [tasks EXCEPT
                                        ![task_id].retry_count = @ + 1,
                                        ![task_id].timestamp = now]
                         /\ queue' = heappush(tasks', queue, task_id)
                         /\ UNCHANGED task_map
                         /\ qret' = [op |-> "mark_complete", id |-> task_id,
                                     success |-> success, known |-> TRUE,
                                     retry_before |-> task.retry_count,
                                     pushed |-> TRUE, ret |-> "False"]
                    ELSE /\ task_map' = task_map \ {task_id}
                         /\ UNCHANGED <<queue, tasks>>
                         /\ qret' = [op |-> "mark_complete", id |-> task_id,
                                     success |-> success, known |-> TRUE,
                                     retry_before |-> task.retry_count,
                                     pushed |-> FALSE, ret |-> "True"]
         ELSE /\ UNCHANGED <<queue, tasks, task_map>>
              /\ qret' = [op |-> "mark_complete", id |-> task_id,
                          success |-> success, known |-> FALSE,
                          retry_before |-> None,
                          pushed |-> FALSE, ret |-> NoValue]
    /\ UNCHANGED <<now, dispatched, nonQueueVars>>

InitQueue ==
    /\ queue = <<>>
    /\ tasks = <<>>
    /\ task_map = {}
    /\ processing = {}
    /\ dispatched = <<>>
    /\ qret = NoCall

NextQueue ==
    \/ \E p \in QueuePriorities, r \in QueueRetryChoices : Enqueue(p, r)
    \/ Dequeue
    \/ DequeueTimeout
    \/ \E id \in TaskIds, ok \in BOOLEAN : MarkComplete(id, ok)

(***************************************************************************)
(* --------------------  AGENT REGISTRY, TASKS, ROUTER  ------------------ *)
(* core/database.py (PostgreSQL tables) and master_controller/ai_router.py *)
(* A statement that violates a key raises; the connection is closed        *)
(* without commit, so the call leaves the tables as they were.             *)
(* Agents are identified by one number that stands for both agent_name     *)
(* and the SERIAL agent_id; 0 is the row 'Master-Controller' that          *)
(* init_database inserts.  All tasks have task_type 'general'.             *)
(***************************************************************************)
NumWorkers == 1
DbMaxTasks == 1
RouterStep == 15           \* granularity of the clock in the router runs
RouterMaxTime == 45
AGENT_FRESH_SECONDS == 30  \* get_available_agents: INTERVAL '30 seconds'
CPU_THRESHOLD == 80        \* filter_by_hardware_health cpu_threshold
MEMORY_THRESHOLD == 90     \* filter_by_hardware_health memory_threshold

MasterController == 0
Workers == 1..NumWorkers
AgentIds == 0..NumWorkers
DbTaskIds == 1..DbMaxTasks
HardwareStats == { [cpu |-> 0, memory |-> 0], [cpu |-> 85, memory |-> 0] }
HeartbeatStatuses == {"idle", "busy", "failed"}
DbPriorities == {1, 2}
ExecutionTimes == {0}
TerminalStatuses == {"completed", "failed", "cancelled"}
LiveStatuses == {"pending", "queued", "assigned", "processing"}

NoAgent ==
    [present |-> FALSE, capability |-> NoValue, host |-> NoValue, port |-> None,
     status |-> "none", last_heartbeat |-> None,
     cpu_usage |-> 0, memory_usage |-> 0, total_tasks |-> 0,
     successful_tasks |-> 0, failed_tasks |-> 0, avg_execution_time |-> 0]

\* database.py init_database(): empty tables, plus the Master-Controller row
init_database(t) ==
    [ai_agents |-> [a \in AgentIds |->
        IF a = MasterController
          THEN [NoAgent EXCEPT !.present = TRUE, !.capability = "general",
                               !.host = "localhost", !.port = 8000,
                               !.status = "active", !.last_heartbeat = t]
          ELSE NoAgent],
     user_tasks |-> [id \in DbTaskIds |-> "absent"],
     task_assignments |-> [id \in DbTaskIds |-> None],
     execution_results |-> <<>>,
     performance_metrics |-> {},
     task_queue |-> <<>>]

Raised(d) == [db |-> d, ok |-> FALSE]
Done(d) == [db |-> d, ok |-> TRUE]

\* database.py register_agent(): upsert on agent_name
register_agent(d, name, capability, host, port, hw, t) ==
    LET old == d.ai_agents[name]
        row == IF old.present
                 THEN [old EXCEPT !.last_heartbeat = t, !.status = "idle",
                                  !.cpu_usage = hw.cpu, !.memory_usage = hw.memory]
                 ELSE [NoAgent EXCEPT !.present = TRUE, !.capability = capability,
                                      !.host = host, !.port = port,
                                      !.status = "idle", !.last_heartbeat = t,
                                      !.cpu_usage = hw.cpu, !.memory_usage = hw.memory]
    IN  Done([d EXCEPT !.ai_agents[name] = row])

\* database.py update_agent_heartbeat(): UPDATE ... WHERE agent_name = name
update_agent_heartbeat(d, name, status, hw, t) ==
    IF d.ai_agents[name].present
      THEN Done([d EXCEPT !.ai_agents[name].last_heartbeat = t,
                          !.ai_agents[name].status = status,
                          !.ai_agents[name].cpu_usage = hw.cpu,
                          !.ai_agents[name].memory_usage = hw.memory])
      ELSE Done(d)

\* The ORDER BY of get_available_agents: status rank, cpu_usage, memory_usage
StatusRank(status) ==
    IF status = "idle" THEN 1 ELSE IF status = "busy" THEN 2 ELSE 3
AgentOrderKey(row) ==
    StatusRank(row.status) * 1000000 + row.cpu_usage * 1000 + row.memory_usage

\* database.py get_available_agents('general'): the rows selected
get_available_agents(d, t) ==
    {a \in AgentIds :
        /\ d.ai_agents[a].present
        /\ d.ai_agents[a].last_heartbeat > t - AGENT_FRESH_SECONDS
        /\ d.ai_agents[a].status # "failed"}

\* ai_router.py filter_by_hardware_health(): all agents when none is healthy
filter_by_hardware_health(d, agents) ==
    LET healthy_agents == {a \in agents :
                              /\ d.ai_agents[a].cpu_usage < CPU_THRESHOLD
                              /\ d.ai_agents[a].memory_usage < MEMORY_THRESHOLD}
    IN  IF healthy_agents # {} THEN healthy_agents ELSE agents

\* ai_router.py total_score as a fraction ScoreNum / ScoreDen:
\*   success_rate * 0.5 + 1/(1 + avg_time/10) * 0.3 + min(successful/100, 1) * 0.2
ScoreDen(row) ==
    LET T == IF row.total_tasks > 0 THEN row.total_tasks ELSE 1
    IN  1000 * T * (10 + row.avg_execution_time)
ScoreNum(row) ==
    LET T == IF row.total_tasks > 0 THEN row.total_tasks ELSE 1
        s == row.successful_tasks
        e == IF s < 100 THEN s ELSE 100
        w == 10 + row.avg_execution_time
    IN  (IF row.total_tasks > 0 THEN 500 * s * w ELSE 0) + 3000 * T + 2 * e * T * w
ScoreLess(r1, r2) == ScoreNum(r1) * ScoreDen(r2) < ScoreNum(r2) * ScoreDen(r1)

\* select_best_agent_by_performance with min() written for max()
select_best_agent_by_performance_Mut(d, available_agents) ==
    LET low == {a \in available_agents : \A b \in available_agents :
                    ~ScoreLess(d.ai_agents[b], d.ai_agents[a])}
    IN  {a \in low : \A b \in low :
            AgentOrderKey(d.ai_agents[a]) <= AgentOrderKey(d.ai_agents[b])}

\* ai_router.py select_best_agent_by_performance(): max() keeps the first of
\* the best-scoring agents in list order; rows that tie in the ORDER BY come
\* in an order the database does not fix.  (get_agent_performance finds a
\* row for every listed agent.)  The result is the set of possible choices.
select_best_agent_by_performance(d, available_agents) ==
    LET top == {a \in available_agents : \A b \in available_agents :
                    ~ScoreLess(d.ai_agents[a], d.ai_agents[b])}
    IN  {a \in top : \A b \in top :
            AgentOrderKey(d.ai_agents[a]) <= AgentOrderKey(d.ai_agents[b])}

\* database.py create_task(): next SERIAL id, status 'pending'
NextTaskId(d) == Cardinality({id \in DbTaskIds : d.user_tasks[id] # "absent"}) + 1
create_task(d) ==
    Done([d EXCEPT !.user_tasks[NextTaskId(d)] = "pending"])

\* assign_task_to_agent whose INSERT replaces an existing assignment row
assign_task_to_agent_Mut(d, task_id, agent_id) ==
    IF \/ d.user_tasks[task_id] = "absent"
       \/ ~d.ai_agents[agent_id].present
      THEN Raised(d)
      ELSE Done([d EXCEPT !.task_assignments[task_id] = agent_id,
                          !.ai_agents[agent_id].status = "busy",
                          !.user_tasks[task_id] = "assigned"])

\* database.py assign_task_to_agent()
assign_task_to_agent(d, task_id, agent_id) ==
    IF \/ d.user_tasks[task_id] = "absent"
       \/ ~d.ai_agents[agent_id].present
       \/ d.task_assignments[task_id] # None
      THEN Raised(d)
      ELSE Done([d EXCEPT !.task_assignments[task_id] = agent_id,
                          !.ai_agents[agent_id].status = "busy",
                          !.user_tasks[task_id] = "assigned"])

\* store_execution_result whose failure branch leaves total_tasks alone
store_execution_result_Mut(d, task_id, agent_id, success, execution_time) ==
    IF \/ d.user_tasks[task_id] = "absent"
       \/ ~d.ai_agents[agent_id].present
       \/ task_id \in d.performance_metrics
      THEN Raised(d)
      ELSE LET old == d.ai_agents[agent_id]
               row == IF success
                        THEN [old EXCEPT
                                !.total_tasks = @ + 1,
                                !.successful_tasks = @ + 1,
                                !.avg_execution_time =
                                    (old.avg_execution_time * old.total_tasks
                                        + execution_time) \div (old.total_tasks + 1),
                                !.status = "idle"]
                        ELSE [old EXCEPT
                                !.failed_tasks = @ + 1,
                                !.status = "idle"]
           IN  Done([d EXCEPT
                    !.execution_results = Append(@,
                        [task_id |-> task_id, agent_id |-> agent_id,
                         success |-> success]),
                    !.user_tasks[task_id] =
                        IF success THEN "completed" ELSE "failed",
                    !.ai_agents[agent_id] = row,
                    !.performance_metrics = @ \cup {task_id}])

\* store_execution_result run without a transaction: the statements before
\* the failing INSERT INTO performance_metrics stay
store_execution_result_NoRollback(d, task_id, agent_id, success, execution_time) ==
    IF \/ d.user_tasks[task_id] = "absent"
       \/ ~d.ai_agents[agent_id].present
      THEN Raised(d)
      ELSE LET old == d.ai_agents[agent_id]
               row == IF success
                        THEN [old EXCEPT
                                !.total_tasks = @ + 1,
                                !.successful_tasks = @ + 1,
                                !.avg_execution_time =
                                    (old.avg_execution_time * old.total_tasks
                                        + execution_time) \div (old.total_tasks + 1),
                                !.status = "idle"]
                        ELSE [old EXCEPT
                                !.total_tasks = @ + 1,
                                !.failed_tasks = @ + 1,
                                !.status = "idle"]
               written == [d EXCEPT
                    !.execution_results = Append(@,
                        [task_id |-> task_id, agent_id |-> agent_id,
                         success |-> success]),
                    !.user_tasks[task_id] =
                        IF success THEN "completed" ELSE "failed",
                    !.ai_agents[agent_id] = row]
           IN  IF task_id \in d.performance_metrics
                 THEN Raised(written)
                 ELSE Done([written EXCEPT !.performance_metrics = @ \cup {task_id}])

\* database.py store_execution_result()
store_execution_result(d, task_id, agent_id, success, execution_time) ==
    IF \/ d.user_tasks[task_id] = "absent"
       \/ ~d.ai_agents[agent_id].present
       \/ task_id \in d.performance_metrics
      THEN Raised(d)
      ELSE LET old == d.ai_agents[agent_id]
               row == IF success
                        THEN [old EXCEPT
                                !.total_tasks = @ + 1,
                                !.successful_tasks = @ + 1,
                                !.avg_execution_time =
                                    (old.avg_execution_time * old.total_tasks
                                        + execution_time) \div (old.total_tasks + 1),
                                !.status = "idle"]
                        ELSE [old EXCEPT
                                !.total_tasks = @ + 1,
                                !.failed_tasks = @ + 1,
                                !.status = "idle"]
           IN  Done([d EXCEPT
                    !.execution_results = Append(@,
                        [task_id |-> task_id, agent_id |-> agent_id,
                         success |-> success]),
                    !.user_tasks[task_id] =
                        IF success THEN "completed" ELSE "failed",
                    !.ai_agents[agent_id] = row,
                    !.performance_metrics = @ \cup {task_id}])

\* database.py queue_task(): upsert of the queue row, then status 'queued'
queue_task(d, task_id, priority) ==
    IF d.user_tasks[task_id] = "absent"
      THEN Raised(d)
      ELSE LET q == d.task_queue
               at == {i \in DOMAIN q : q[i].task_id = task_id}
               q2 == IF at = {}
                       THEN Append(q, [task_id |-> task_id, priority |-> priority])
                       ELSE [i \in DOMAIN q |->
                               IF i \in at THEN [q[i] EXCEPT !.priority = priority]
                               ELSE q[i]]
           IN  Done([d EXCEPT !.task_queue = q2,
                              !.user_tasks[task_id] = "queued"])

\* database.py get_next_queued_task(): priority DESC, queued_at ASC, LIMIT 1
get_next_queued_task(d) ==
    LET q == d.task_queue
        cand == {i \in DOMAIN q : d.user_tasks[q[i].task_id] = "queued"}
        best == {i \in cand : \A j \in cand :
                    \/ q[i].priority > q[j].priority
                    \/ q[i].priority = q[j].priority /\ i <= j}
    IN  IF cand = {} THEN None ELSE q[CHOOSE i \in best : TRUE].task_id

\* ai_router.py route_with_fallback(), for one possible choice best_agent of
\* select_best_agent_by_performance (None when there is no candidate)
\* The status "queued_for_<name>" is the pair of status "queued_for" and
\* queued_for = name; queued_for is None in every other status
RouteResult(r, status, agent, candidates, queued_for) ==
    [db |-> r.db, ok |-> r.ok, status |-> IF r.ok THEN status ELSE "raised",
     agent |-> IF r.ok THEN agent ELSE None, candidates |-> candidates,
     queued_for |-> IF r.ok THEN queued_for ELSE None]
route_with_fallback(d, task_id, use_master_brain, best_agent, t) ==
    LET agents == get_available_agents(d, t)
        healthy_agents == filter_by_hardware_health(d, agents)
    IN  IF agents = {}
          THEN IF use_master_brain
                 THEN RouteResult(Done(d), "master_brain", None, {}, None)
                 ELSE RouteResult(queue_task(d, task_id, 1), "queued", None, {}, None)
        ELSE IF healthy_agents = {}
          THEN RouteResult(queue_task(d, task_id, 2), "queued_overload", None, {}, None)
        ELSE IF best_agent = None
          THEN RouteResult(queue_task(d, task_id, 1), "queued_no_match", None,
                           healthy_agents, None)
        ELSE IF d.ai_agents[best_agent].status = "busy"
          THEN RouteResult(queue_task(d, task_id, 1), "queued_for", None,
                           healthy_agents, best_agent)
        ELSE RouteResult(assign_task_to_agent(d, task_id, best_agent),
                         "assigned", best_agent, healthy_agents, None)

\* The agents select_best_agent_by_performance may return inside the call
BestAgentChoices(d, t) ==
    LET healthy_agents == filter_by_hardware_health(d, get_available_agents(d, t))
    IN  IF healthy_agents = {} THEN {None}
        ELSE select_best_agent_by_performance(d, healthy_agents)

(***************************************************************************)
(* worker_health_monitor.py WorkerHealthMonitor                            *)
(***************************************************************************)
HEALTH_THRESHOLD == 30     \* self.health_threshold
FAILURE_THRESHOLD == 3     \* self.failure_threshold
MaxFailures == 3           \* record_failure calls per worker in a run
MonitorStatuses == {"idle"}

NoWorker ==
    [known |-> FALSE, last_heartbeat |-> None, status |-> "none",
     consecutive_failures |-> 0, total_failures |-> 0,
     health_status |-> "unknown", first_seen |-> None]

\* WorkerHealthMonitor.update_heartbeat()
update_heartbeat(wh, worker_id, status, t) ==
    IF ~wh[worker_id].known
      THEN [wh EXCEPT ![worker_id] =
              [known |-> TRUE, last_heartbeat |-> t, status |-> status,
               consecutive_failures |-> 0, total_failures |-> 0,
               health_status |-> "healthy", first_seen |-> t]]
      ELSE [wh EXCEPT ![worker_id].last_heartbeat = t,
                      ![worker_id].status = status,
                      ![worker_id].consecutive_failures = 0,
                      ![worker_id].health_status = "healthy"]

\* record_failure with the dead test written > instead of >=
record_failure_Mut(wh, worker_id) ==
    IF ~wh[worker_id].known THEN wh
    ELSE LET failures == wh[worker_id].consecutive_failures + 1
         IN  [wh EXCEPT ![worker_id].consecutive_failures = failures,
                        ![worker_id].total_failures = @ + 1,
                        ![worker_id].health_status =
                            IF failures > FAILURE_THRESHOLD THEN "dead"
                            ELSE IF failures >= 2 THEN "degraded"
                            ELSE @]

\* WorkerHealthMonitor.record_failure()
record_failure(wh, worker_id) ==
    IF ~wh[worker_id].known THEN wh
    ELSE LET failures == wh[worker_id].consecutive_failures + 1
         IN  [wh EXCEPT ![worker_id].consecutive_failures = failures,
                        ![worker_id].total_failures = @ + 1,
                        ![worker_id].health_status =
                            IF failures >= FAILURE_THRESHOLD THEN "dead"
                            ELSE IF failures >= 2 THEN "degraded"
                            ELSE @]

\* check_worker_health that marks a stale worker unhealthy even when dead
check_worker_health_NoGuard(wh, worker_id, t) ==
    IF ~wh[worker_id].known THEN wh
    ELSE IF t - wh[worker_id].last_heartbeat > HEALTH_THRESHOLD
      THEN [wh EXCEPT ![worker_id].health_status = "unhealthy"]
      ELSE wh

\* check_worker_health with the stale test written >= instead of >
check_worker_health_Mut(wh, worker_id, t) ==
    IF ~wh[worker_id].known THEN wh
    ELSE IF /\ t - wh[worker_id].last_heartbeat >= HEALTH_THRESHOLD
            /\ wh[worker_id].health_status # "dead"
      THEN [wh EXCEPT ![worker_id].health_status = "unhealthy"]
      ELSE wh

\* WorkerHealthMonitor.check_worker_health(): the table after the call
check_worker_health(wh, worker_id, t) ==
    IF ~wh[worker_id].known THEN wh
    ELSE IF /\ t - wh[worker_id].last_heartbeat > HEALTH_THRESHOLD
            /\ wh[worker_id].health_status # "dead"
      THEN [wh EXCEPT ![worker_id].health_status = "unhealthy"]
      ELSE wh

\* WorkerHealthMonitor.check_worker_health(): the status it returns
HealthStatus(wh, worker_id, t) ==
    check_worker_health(wh, worker_id, t)[worker_id].health_status

\* One pass over all workers (get_healthy_workers, _monitor_loop): the checks
\* touch one worker each, so the pass is the pointwise check
CheckAll(wh, t) ==
    [w \in Workers |-> check_worker_health(wh, w, t)[w]]

\* WorkerHealthMonitor.get_healthy_workers(): the list it returns, as a set
get_healthy_workers(wh, t) ==
    {w \in Workers : wh[w].known /\ HealthStatus(wh, w, t) \in {"healthy", "degraded"}}

\* The workers the monitor classifies as dead
DeadWorkers(wh, t) ==
    {w \in Workers : HealthStatus(wh, w, t) = "dead"}

NoRoute ==
    [op |-> "none", task_id |-> None, status |-> "none", agent |-> None,
     candidates |-> {}, dead |-> {}, queued_for |-> None]

\* register_agent(name, 'general', hardware_stats=hw)
RegisterAgent(name, hw) ==
    /\ db' = register_agent(db, name, "general", "localhost", 5000, hw, now).db
    /\ routed' = NoRoute
    /\ UNCHANGED <<now, worker_health, nonRouterVars>>

\* update_agent_heartbeat(name, status, hw)
UpdateAgentHeartbeat(name, status, hw) ==
    /\ db' = update_agent_heartbeat(db, name, status, hw, now).db
    /\ routed' = NoRoute
    /\ UNCHANGED <<now, worker_health, nonRouterVars>>

\* create_task(user_id, task_desc)
CreateTask ==
    /\ NextTaskId(db) <= DbMaxTasks
    /\ db' = create_task(db).db
    /\ routed' = NoRoute
    /\ UNCHANGED <<now, worker_health, nonRouterVars>>

\* assign_task_to_agent(task_id, agent_id)
AssignTaskToAgent(task_id, agent_id) ==
    /\ db' = assign_task_to_agent(db, task_id, agent_id).db
    /\ routed' = NoRoute
    /\ UNCHANGED <<now, worker_health, nonRouterVars>>

\* store_execution_result(task_id, agent_id, output, success, execution_time)
StoreExecutionResult(task_id, agent_id, success, execution_time) ==
    /\ LET r == store_execution_result(db, task_id, agent_id, success,
                                       execution_time)
       IN  /\ db' = r.db
           /\ routed' = [NoRoute EXCEPT !.op = "store", !.task_id = task_id,
                                        !.agent = agent_id,
                                        !.status = IF r.ok THEN "stored" ELSE "raised"]
    /\ UNCHANGED <<now, worker_health, nonRouterVars>>

\* queue_task(task_id, priority)
QueueTask(task_id, priority) ==
    /\ db' = queue_task(db, task_id, priority).db
    /\ routed' = NoRoute
    /\ UNCHANGED <<now, worker_health, nonRouterVars>>

\* route_with_fallback(task_id, task_desc, 'general', use_master_brain=...)
RouteWithFallback(task_id, use_master_brain) ==
    \E best_agent \in BestAgentChoices(db, now) :
        LET r == route_with_fallback(db, task_id, use_master_brain, best_agent, now)
        IN  /\ db' = r.db
            /\ routed' = [op |-> "route", task_id |-> task_id,
                          status |-> r.status, agent |-> r.agent,
                          candidates |-> r.candidates,
                          dead |-> DeadWorkers(worker_health, now),
                          queued_for |-> r.queued_for]
            /\ UNCHANGED <<now, worker_health, nonRouterVars>>

\* process_queued_tasks(): route the next queued task again (intelligent_route
\* catches what the routing raises)
ProcessQueuedTasks ==
    LET next_task == get_next_queued_task(db)
    IN  IF next_task = None
          THEN /\ routed' = [NoRoute EXCEPT !.op = "process"]
               /\ UNCHANGED <<now, db, worker_health, nonRouterVars>>
          ELSE \E best_agent \in BestAgentChoices(db, now) :
                LET r == route_with_fallback(db, next_task, TRUE, best_agent, now)
                IN  /\ db' = r.db
                    /\ routed' = [op |-> "process", task_id |-> next_task,
                                  status |-> r.status, agent |-> r.agent,
                                  candidates |-> r.candidates,
                                  dead |-> DeadWorkers(worker_health, now),
                                  queued_for |-> r.queued_for]
                    /\ UNCHANGED <<now, worker_health, nonRouterVars>>

\* WorkerHealthMonitor.update_heartbeat(worker_id, status)
HmUpdateHeartbeat(worker_id, status) ==
    /\ worker_health' = update_heartbeat(worker_health, worker_id, status, now)
    /\ routed' = [NoRoute EXCEPT !.op = "heartbeat", !.agent = worker_id]
    /\ UNCHANGED <<now, db, nonRouterVars>>

\* WorkerHealthMonitor.record_failure(worker_id)
RecordFailure(worker_id) ==
    /\ worker_health[worker_id].total_failures < MaxFailures
    /\ worker_health' = record_failure(worker_health, worker_id)
    /\ routed' = [NoRoute EXCEPT !.op = "failure", !.agent = worker_id]
    /\ UNCHANGED <<now, db, nonRouterVars>>

\* WorkerHealthMonitor.check_worker_health(worker_id)
CheckWorkerHealth(worker_id) ==
    /\ worker_health' = check_worker_health(worker_health, worker_id, now)
    /\ routed' = [NoRoute EXCEPT !.op = "check", !.agent = worker_id,
                                 !.status = HealthStatus(worker_health, worker_id, now)]
    /\ UNCHANGED <<now, db, nonRouterVars>>

\* WorkerHealthMonitor.get_healthy_workers(): checks every worker
GetHealthyWorkers ==
    /\ worker_health' = CheckAll(worker_health, now)
    /\ routed' = [NoRoute EXCEPT !.op = "healthy",
                                 !.candidates = get_healthy_workers(worker_health, now)]
    /\ UNCHANGED <<now, db, nonRouterVars>>

\* WorkerHealthMonitor._monitor_loop(): one pass of the background thread
MonitorSweep ==
    /\ worker_health' = CheckAll(worker_health, now)
    /\ routed' = [NoRoute EXCEPT !.op = "sweep"]
    /\ UNCHANGED <<now, db, nonRouterVars>>

RouterClock ==
    /\ now < RouterMaxTime
    /\ now' = now + RouterStep
    /\ routed' = NoRoute
    /\ UNCHANGED <<db, worker_health, nonRouterVars>>

InitRouter ==
    /\ db = init_database(0)
    /\ worker_health = [w \in Workers |-> NoWorker]
    /\ routed = NoRoute

AgentCalls ==
    \/ \E w \in Workers, hw \in HardwareStats : RegisterAgent(w, hw)
    \/ \E w \in Workers, s \in HeartbeatStatuses, hw \in HardwareStats :
            UpdateAgentHeartbeat(w, s, hw)
    \/ CreateTask
    \/ \E id \in DbTaskIds, umb \in BOOLEAN : RouteWithFallback(id, umb)
    \/ RouterClock

\* The task life cycle: registry, tasks, queue, results and routing
NextTasks ==
    \/ AgentCalls
    \/ \E id \in DbTaskIds, a \in AgentIds : AssignTaskToAgent(id, a)
    \/ \E id \in DbTaskIds, a \in AgentIds, ok \in BOOLEAN, x \in ExecutionTimes :
            StoreExecutionResult(id, a, ok, x)
    \/ \E id \in DbTaskIds, p \in DbPriorities : QueueTask(id, p)
    \/ ProcessQueuedTasks

\* Routing next to the health monitor
NextHealth ==
    \/ AgentCalls
    \/ \E w \in Workers, s \in MonitorStatuses : HmUpdateHeartbeat(w, s)
    \/ \E w \in Workers : RecordFailure(w)
    \/ \E w \in Workers : CheckWorkerHealth(w)
    \/ GetHealthyWorkers

\* The health monitor alone: heartbeats, failures, checks and the clock
NextMonitor ==
    \/ \E w \in Workers, s \in MonitorStatuses : HmUpdateHeartbeat(w, s)
    \/ \E w \in Workers : RecordFailure(w)
    \/ \E w \in Workers : CheckWorkerHealth(w)
    \/ GetHealthyWorkers
    \/ MonitorSweep
    \/ RouterClock

(***************************************************************************)
(* ------------------  RESPONSE CACHE, SEVERAL THREADS  ------------------ *)
(* ResponseCache takes no lock.  Threads run get, set and clear_expired on *)
(* the one instance; a thread switch can fall between any two of the steps *)
(* below (each is a run of statements of response_cache.py; the            *)
(* interpreter may switch more often still).  A dict lookup or del of a    *)
(* missing key raises KeyError, min() of an empty dict raises ValueError;  *)
(* the exception ends the call.                                            *)
(***************************************************************************)
NumThreads == 2
Threads == 1..NumThreads
ConcMaxCalls == 2          \* calls per thread in a run
ConcResponses == {"r1"}

IdleThread ==
    [pc |-> "idle", op |-> "none", key |-> <<>>, response |-> NoValue,
     oldest_key |-> <<>>, expired_keys |-> <<>>, calls |-> 0, raised |-> NoValue]

Goto(th, pc) == [cthreads EXCEPT ![th].pc = pc]
Return(th) == [cthreads EXCEPT ![th].pc = "idle"]
Raise(th, exc) == [cthreads EXCEPT ![th].pc = "idle", ![th].raised = exc]

\* A thread enters get / set / clear_expired (lines 41, 72: the key is hashed)
ThreadCall(th, op, message, response, context) ==
    /\ cthreads[th].pc = "idle"
    /\ cthreads[th].calls < ConcMaxCalls
    /\ cthreads' = [cthreads EXCEPT
            ![th].pc = IF op = "get" THEN "get43"
                       ELSE IF op = "set" THEN "set75" ELSE "clear93",
            ![th].op = op,
            ![th].key = IF op = "clear_expired" THEN <<>>
                        ELSE hash_query(message, context),
            ![th].response = IF op = "set" THEN response ELSE NoValue,
            ![th].oldest_key = <<>>,
            ![th].expired_keys = <<>>,
            ![th].calls = @ + 1]
    /\ UNCHANGED <<now, cacheVars, nonConcVars>>

\* get, line 43: if query_hash in self.cache
GetTest(th) ==
    /\ cthreads[th].pc = "get43"
    /\ cthreads' = Goto(th, IF cthreads[th].key \in KeysOf(cache)
                              THEN "get44" ELSE "get66")
    /\ UNCHANGED <<now, cacheVars, nonConcVars>>

\* get, lines 44-48 (the lookup and the expiry test) and, for a live entry,
\* lines 56-64 (the hit)
GetLookup(th) ==
    /\ cthreads[th].pc = "get44"
    /\ LET k == cthreads[th].key
       IN  IF k \notin KeysOf(cache)
             THEN /\ cthreads' = Raise(th, "KeyError")
                  /\ UNCHANGED <<cache, stats>>
           ELSE IF Expired(now - EntryOf(cache, k).timestamp)
             THEN /\ cthreads' = Goto(th, "get49")
                  /\ UNCHANGED <<cache, stats>>
           ELSE /\ cache' = [cache EXCEPT ![IndexOf(cache, k)].hit_count = @ + 1]
                /\ stats' = [stats EXCEPT !.hits = @ + 1,
                                          !.total_saved_calls = @ + 1]
                /\ cthreads' = Return(th)
    /\ UNCHANGED <<now, lastSet, got, nonConcVars>>

\* get, line 49: del self.cache[query_hash]
GetDelete(th) ==
    /\ cthreads[th].pc = "get49"
    /\ LET k == cthreads[th].key
       IN  IF k \notin KeysOf(cache)
             THEN /\ cthreads' = Raise(th, "KeyError")
                  /\ UNCHANGED cache
             ELSE /\ cache' = DelKey(cache, k)
                  /\ cthreads' = Goto(th, "get50")
    /\ UNCHANGED <<now, stats, lastSet, got, nonConcVars>>

\* get, lines 50-53: the counters of an expired read
GetExpiredStats(th) ==
    /\ cthreads[th].pc = "get50"
    /\ stats' = [stats EXCEPT !.evictions = @ + 1, !.misses = @ + 1]
    /\ cthreads' = Return(th)
    /\ UNCHANGED <<now, cache, lastSet, got, nonConcVars>>

\* get, lines 66-68: the miss
GetMiss(th) ==
    /\ cthreads[th].pc = "get66"
    /\ stats' = [stats EXCEPT !.misses = @ + 1]
    /\ cthreads' = Return(th)
    /\ UNCHANGED <<now, cache, lastSet, got, nonConcVars>>

\* set, line 75: the size test
SetTest(th) ==
    /\ cthreads[th].pc = "set75"
    /\ cthreads' = Goto(th, IF /\ Len(cache) >= MAX_ENTRIES
                               /\ cthreads[th].key \notin KeysOf(cache)
                              THEN "set77" ELSE "set82")
    /\ UNCHANGED <<now, cacheVars, nonConcVars>>

\* set, line 77: oldest_key = min(self.cache.keys(), ...)
SetOldest(th) ==
    /\ cthreads[th].pc = "set77"
    /\ cthreads' = IF cache = <<>> THEN Raise(th, "ValueError")
                   ELSE [cthreads EXCEPT ![th].pc = "set78",
                                         ![th].oldest_key = OldestKey(cache)]
    /\ UNCHANGED <<now, cacheVars, nonConcVars>>

\* set, lines 78-79: del self.cache[oldest_key]; evictions += 1
SetEvict(th) ==
    /\ cthreads[th].pc = "set78"
    /\ LET k == cthreads[th].oldest_key
       IN  IF k \notin KeysOf(cache)
             THEN /\ cthreads' = Raise(th, "KeyError")
                  /\ UNCHANGED <<cache, stats>>
             ELSE /\ cache' = DelKey(cache, k)
                  /\ stats' = [stats EXCEPT !.evictions = @ + 1]
                  /\ cthreads' = Goto(th, "set82")
    /\ UNCHANGED <<now, lastSet, got, nonConcVars>>

\* set, lines 82-89: the store
SetStore(th) ==
    /\ cthreads[th].pc = "set82"
    /\ cache' = PutKey(cache, [key |-> cthreads[th].key,
                               response |-> cthreads[th].response,
                               timestamp |-> now, hit_count |-> 0])
    /\ lastSet' = [lastSet EXCEPT ![cthreads[th].key] =
                      [response |-> cthreads[th].response, at |-> now]]
    /\ cthreads' = Return(th)
    /\ UNCHANGED <<now, stats, got, nonConcVars>>

\* clear_expired, lines 93-97: the list of expired keys
ClearScan(th) ==
    /\ cthreads[th].pc = "clear93"
    /\ LET expired_keys == ExpiredKeys(cache, now)
       IN  cthreads' = [cthreads EXCEPT
                ![th].pc = IF expired_keys = <<>> THEN "idle" ELSE "clear99",
                ![th].expired_keys = expired_keys]
    /\ UNCHANGED <<now, cacheVars, nonConcVars>>

\* clear_expired, lines 99-101: one round of the deleting loop
ClearDelete(th) ==
    /\ cthreads[th].pc = "clear99"
    /\ LET k == Head(cthreads[th].expired_keys)
           rest == Tail(cthreads[th].expired_keys)
       IN  IF k \notin KeysOf(cache)
             THEN /\ cthreads' = Raise(th, "KeyError")
                  /\ UNCHANGED <<cache, stats>>
             ELSE /\ cache' = DelKey(cache, k)
                  /\ stats' = [stats EXCEPT !.evictions = @ + 1]
                  /\ cthreads' = [cthreads EXCEPT
                        ![th].pc = IF rest = <<>> THEN "idle" ELSE "clear99",
                        ![th].expired_keys = rest]
    /\ UNCHANGED <<now, lastSet, got, nonConcVars>>

ConcClock ==
    /\ now < CacheMaxTime
    /\ now' = now + 1
    /\ UNCHANGED <<cacheVars, cthreads, nonConcVars>>

InitConc == cthreads = [th \in Threads |-> IdleThread]

NextCacheConc ==
    \/ \E th \in Threads, op \in {"get", "set", "clear_expired"},
          m \in CacheMessages, r \in ConcResponses, c \in CacheContexts :
            ThreadCall(th, op, m, r, c)
    \/ \E th \in Threads :
            \/ GetTest(th) \/ GetLookup(th) \/ GetDelete(th)
            \/ GetExpiredStats(th) \/ GetMiss(th)
            \/ SetTest(th) \/ SetOldest(th) \/ SetEvict(th) \/ SetStore(th)
            \/ ClearScan(th) \/ ClearDelete(th)
    \/ ConcClock

(***************************************************************************)
(* ----------------------------  TASK PLANNER  --------------------------- *)
(* master_controller/task_planner.py.  The planning oracle (Groq) is an    *)
(* input: its reply is any of OracleReplies.  A step string is a sequence  *)
(* of tokens, each a word or a blank.                                      *)
(***************************************************************************)
PlanMaxSteps == 4          \* longest steps list the oracle replies with
VALID_STEPS == { <<"coding">>, <<"documentation">>, <<"analysis">>, <<"general">> }

\* str.lower() and str.strip() on the step strings used
StepLowerToken(tok) ==
    IF tok = "CODING" THEN "coding"
    ELSE IF tok = "Analysis" THEN "analysis" ELSE tok
StepClean(text) == strip([i \in DOMAIN text |-> StepLowerToken(text[i])])

\* The items of a steps list: strings, or a JSON value that is no string
StepItems ==
    { [isstr |-> TRUE, text |-> <<"coding">>],
      [isstr |-> TRUE, text |-> <<" ", "Analysis", " ">>],
      [isstr |-> TRUE, text |-> <<"image">>],
      [isstr |-> FALSE, text |-> <<>>] }
RECURSIVE StepLists(_)
StepLists(n) ==
    IF n = 0 THEN {<<>>}
    ELSE LET shorter == StepLists(n - 1)
         IN  shorter \cup {Append(l, x) : l \in {y \in shorter : Len(y) = n - 1},
                                          x \in StepItems}

\* What the oracle call yields: "error" (the call or json.loads raises),
\* "no_steps" (no "steps" key), "steps_not_list", or "steps" with a list
OracleReplies ==
    {[kind |-> k, steps |-> <<>>] : k \in {"error", "no_steps", "steps_not_list"}}
        \cup {[kind |-> "steps", steps |-> l] : l \in StepLists(PlanMaxSteps)}

\* TaskPlanner._default_plan()
default_plan == [steps |-> << <<"general">> >>, is_multi_step |-> FALSE]

\* The clean-up loop of plan_task (lines 63-67)
RECURSIVE ValidSteps(_)
ValidSteps(steps) ==
    IF steps = <<>> THEN <<>>
    ELSE (IF StepClean(Head(steps).text) \in VALID_STEPS
            THEN << StepClean(Head(steps).text) >> ELSE <<>>)
         \o ValidSteps(Tail(steps))

\* TaskPlanner.plan_task(): has_client is whether an oracle is configured
plan_task(has_client, reply) ==
    IF ~has_client
      THEN [steps |-> << <<"general">> >>, is_multi_step |-> FALSE]
    ELSE IF reply.kind # "steps" THEN default_plan
    ELSE IF \E i \in DOMAIN reply.steps : ~reply.steps[i].isstr
      THEN default_plan  \* step.lower() raises; the except clause answers
    ELSE LET valid_steps == ValidSteps(reply.steps)
             kept == IF valid_steps = <<>> THEN << <<"general">> >> ELSE valid_steps
         IN  [steps |-> kept, is_multi_step |-> Len(kept) > 1]

NoPlan ==
    [op |-> "none", has_client |-> FALSE, reply |-> [kind |-> "none", steps |-> <<>>],
     steps |-> <<>>, is_multi_step |-> FALSE]

\* plan_task(message, files) with an oracle configured, for any reply
PlanTask ==
    \E reply \in OracleReplies :
        LET r == plan_task(TRUE, reply)
        IN  /\ plan' = [op |-> "plan", has_client |-> TRUE, reply |-> reply,
                        steps |-> r.steps, is_multi_step |-> r.is_multi_step]
            /\ UNCHANGED <<now, nonPlanVars>>

\* plan_task(message, files) without an oracle
PlanTaskNoClient ==
    LET r == plan_task(FALSE, [kind |-> "none", steps |-> <<>>])
    IN  /\ plan' = [op |-> "plan", has_client |-> FALSE,
                    reply |-> [kind |-> "none", steps |-> <<>>],
                    steps |-> r.steps, is_multi_step |-> r.is_multi_step]
        /\ UNCHANGED <<now, nonPlanVars>>

InitPlan == plan = NoPlan

NextPlan == PlanTask \/ PlanTaskNoClient

(***************************************************************************)
(* --------------------------  CONTEXT MANAGER  -------------------------- *)
(* master_controller/context_manager.py.  The analysis oracle (Groq) is an *)
(* input: its reply is any of ContextReplies.  A context string is the     *)
(* sequence of the parts that build_context_for_worker joins.              *)
(***************************************************************************)
CtxMaxHistory == 2         \* longest conversation history
CtxMaxIndices == 2         \* longest relevant_message_indices list

CtxTurns == { [role |-> "user", content |-> "h1"],
              [role |-> "assistant", content |-> "h2"] }
CtxFileContexts == {"", "f1"}
CurrentMessage == "m1"

RECURSIVE CtxHistories(_)
CtxHistories(n) ==
    IF n = 0 THEN {<<>>}
    ELSE LET shorter == CtxHistories(n - 1)
         IN  shorter \cup {Append(h, x) : h \in {y \in shorter : Len(y) = n - 1},
                                          x \in CtxTurns}

\* relevant_message_indices: in range, past the end, or negative
RECURSIVE CtxIndexLists(_)
CtxIndexLists(n) ==
    IF n = 0 THEN {<<>>}
    ELSE LET shorter == CtxIndexLists(n - 1)
         IN  shorter \cup {Append(l, x) : l \in {y \in shorter : Len(y) = n - 1},
                                          x \in -1..CtxMaxHistory}

\* What the oracle call yields: "error" (the call or json.loads raises),
\* "bad_indices" (the indices are no list of numbers: the loop raises), or
\* "result" with is_continuation "true", "false" or "missing"
ContextReplies ==
    {[kind |-> "error", is_continuation |-> "missing", indices |-> <<>>]}
        \cup {[kind |-> k, is_continuation |-> c, indices |-> l] :
                  k \in {"result"}, c \in {"true", "false", "missing"},
                  l \in CtxIndexLists(CtxMaxIndices)}
        \cup {[kind |-> "bad_indices", is_continuation |-> c, indices |-> <<>>] :
                  c \in {"true", "false"}}

\* The loop of analyze_context_needs over relevant_indices (lines 56-59);
\* Python indexes the history from 0
RECURSIVE RelevantMessages(_, _)
RelevantMessages(indices, conversation_history) ==
    IF indices = <<>> THEN <<>>
    ELSE (IF 0 <= Head(indices) /\ Head(indices) < Len(conversation_history)
            THEN << conversation_history[Head(indices) + 1] >> ELSE <<>>)
         \o RelevantMessages(Tail(indices), conversation_history)

\* ContextManager.analyze_context_needs()
analyze_context_needs(has_client, reply, conversation_history) ==
    IF ~has_client \/ conversation_history = <<>>
      THEN [is_continuation |-> FALSE, relevant_messages |-> <<>>]
    ELSE IF reply.kind # "result"
      THEN [is_continuation |-> FALSE, relevant_messages |-> <<>>]
    ELSE [is_continuation |-> (reply.is_continuation = "true"),
          relevant_messages |-> RelevantMessages(reply.indices, conversation_history)]

UpperRole(role) == IF role = "user" THEN "USER" ELSE "ASSISTANT"

\* ContextManager.build_context_for_worker()
build_context_for_worker(current_message, relevant_messages, file_context) ==
    IF relevant_messages = <<>> /\ file_context = "" THEN <<>>
    ELSE (IF file_context # ""
            THEN << [part |-> "files", role |-> "", text |-> file_context] >> ELSE <<>>)
         \o (IF relevant_messages # <<>>
               THEN << [part |-> "heading", role |-> "", text |-> ""] >>
                    \o [i \in DOMAIN relevant_messages |->
                           [part |-> "turn", role |-> UpperRole(relevant_messages[i].role),
                            text |-> relevant_messages[i].content]]
                    \o << [part |-> "rule", role |-> "", text |-> ""] >>
               ELSE <<>>)
         \o << [part |-> "request", role |-> "", text |-> current_message] >>

\* ContextManager.get_smart_context()
get_smart_context(has_client, reply, current_message, conversation_history, file_context) ==
    LET analysis == analyze_context_needs(has_client, reply, conversation_history)
    IN  [context_string |-> build_context_for_worker(current_message,
                                analysis.relevant_messages, file_context),
         analysis |-> analysis]

NoContext ==
    [op |-> "none", history |-> <<>>, is_continuation |-> FALSE, context_string |-> <<>>]

\* get_smart_context(current_message, conversation_history, file_context)
GetSmartContext ==
    \E has_client \in BOOLEAN, reply \in ContextReplies,
       conversation_history \in CtxHistories(CtxMaxHistory),
       file_context \in CtxFileContexts :
        LET r == get_smart_context(has_client, reply, CurrentMessage,
                                   conversation_history, file_context)
        IN  /\ ctx' = [op |-> "context", history |-> conversation_history,
                       is_continuation |-> r.analysis.is_continuation,
                       context_string |-> r.context_string]
            /\ UNCHANGED <<now, nonCtxVars>>

InitCtx == ctx = NoContext

NextCtx == GetSmartContext

(***************************************************************************)
(* Registration with any capability, host and port (register_agent).       *)
(***************************************************************************)
Capabilities == {"general", "coding"}
Hosts == {"localhost", "host-2"}
Ports == {5000, 5001}

NoRegistration ==
    [op |-> "none", name |-> None, capability |-> NoValue, host |-> NoValue,
     port |-> None, hw |-> [cpu |-> 0, memory |-> 0], time |-> None, known |-> FALSE]

\* register_agent(name, capability, host, port, hardware_stats=hw)
RegisterAgentWith(name, capability, host, port, hw) ==
    /\ db' = register_agent(db, name, capability, host, port, hw, now).db
    /\ reg' = [op |-> "register", name |-> name, capability |-> capability,
               host |-> host, port |-> port, hw |-> hw, time |-> now,
               known |-> db.ai_agents[name].present]
    /\ routed' = NoRoute
    /\ UNCHANGED <<now, worker_health, nonRouterRegVars>>

\* Time passes between two registrations
RegistryClock ==
    /\ now + RouterStep <= RouterMaxTime
    /\ now' = now + RouterStep
    /\ reg' = NoRegistration
    /\ UNCHANGED <<routerVars, nonRouterRegVars>>

InitReg == reg = NoRegistration

NextReg ==
    \/ \E w \in Workers, capability \in Capabilities, host \in Hosts,
          port \in Ports, hw \in HardwareStats :
           RegisterAgentWith(w, capability, host, port, hw)
    \/ RegistryClock

(***************************************************************************)
(* Cancelling a queued task.  SmartTaskQueue has the methods enqueue,      *)
(* dequeue, mark_complete, get_queue_stats, size and clear, and no cancel: *)
(* the call raises AttributeError and the queue stays as it was.           *)
(***************************************************************************)
\* queue.cancel(task_id) on a task that waits in the queue
Cancel(task_id) ==
    /\ \E i \in DOMAIN queue : queue[i] = task_id
    /\ cancelled' = cancelled \cup {task_id}
    /\ qret' = [op |-> "cancel", id |-> task_id, raised |-> TRUE]
    /\ UNCHANGED <<now, queue, tasks, task_map, processing, dispatched,
                   nonQueueCancelVars>>

InitCancel == cancelled = {}

NextCancel ==
    \/ \E p \in QueuePriorities, r \in QueueRetryChoices : Enqueue(p, r)
    \/ Dequeue
    \/ DequeueTimeout
    \/ \E id \in TaskIds : Cancel(id)

(***************************************************************************)
(* -------------------------  PERFORMANCE TRACKER  ----------------------- *)
(* master_controller/performance_tracker.py, the metrics of one worker.    *)
(* The class body defines is_worker_healthy twice; the second definition   *)
(* (line 402) replaces the first (line 325), so it is the method called.   *)
(* uptime_percentage is success_count / total_tasks * 100.                 *)
(***************************************************************************)
TrackerMaxTasks == 5       \* log_task_result calls in a run
TrackerStep == 150         \* seconds the clock advances by
TrackerMaxTime == 450
MAX_CONSECUTIVE_FAILURES == 3  \* is_worker_healthy max_consecutive_failures
FAILURE_COOLDOWN == 300    \* timedelta(minutes=5)

\* PerformanceTracker.__init__: the defaultdict entry of a worker
TaskTypes == {"coding", "documentation", "analysis"}

\* PerformanceTracker.__init__(): the record a worker starts with.
\* specialization_score is kept as an exact fraction num/den.
NoMetrics ==
    [total_tasks |-> 0, success_count |-> 0, failure_count |-> 0,
     consecutive_failures |-> 0, last_failure_time |-> None,
     task_types |-> [ty \in TaskTypes |-> 0],
     response_time_history |-> <<>>, success_history |-> <<>>,
     quality_history |-> <<>>, performance_trend |-> "stable",
     optimal_task_types |-> {}, specialization_score |-> [num |-> 0, den |-> 1]]

RECURSIVE SumSeq(_)
SumSeq(q) == IF q = <<>> THEN 0 ELSE Head(q) + SumSeq(Tail(q))

\* Python's q[-n:]
LastN(q, n) == IF Len(q) <= n THEN q ELSE SubSeq(q, Len(q) - n + 1, Len(q))

\* PerformanceTracker._analyze_performance_trend(): the trend it stores.
\* recent and older are both of length 10 when they differ, so
\* diff = r/10 - o/10 in floating point: beyond the exact comparison with
\* 0.1, the differences 0.4 - 0.3 and 0.8 - 0.7 come out above 0.1 (and
\* their opposites below -0.1).
analyze_performance_trend(success_history) ==
    IF Len(success_history) < 10 THEN "learning"
    ELSE LET recent == LastN(success_history, 10)
             older == IF Len(success_history) >= 20
                        THEN SubSeq(LastN(success_history, 20), 1, 10)
                        ELSE recent
             r == SumSeq(recent)
             o == SumSeq(older)
         IN  IF r - o > 1 \/ <<r, o>> \in {<<4, 3>>, <<8, 7>>} THEN "improving"
             ELSE IF r - o < -1 \/ <<r, o>> \in {<<3, 4>>, <<7, 8>>} THEN "degrading"
             ELSE "stable"

\* max(task_types.values())
MaxCount(task_types) ==
    CHOOSE n \in {task_types[ty] : ty \in TaskTypes} :
        \A ty \in TaskTypes : task_types[ty] <= n

\* _detect_specialization with percentage >= 40
detect_specialization_Mut(m) ==
    IF m.total_tasks < 15 THEN m
    ELSE LET total == m.task_types["coding"] + m.task_types["documentation"]
                          + m.task_types["analysis"]
             specialized_types ==
                 {ty \in TaskTypes : m.task_types[ty] * 100 >= 40 * total}
         IN  [m EXCEPT !.optimal_task_types = specialized_types,
                       !.specialization_score =
                           IF specialized_types # {}
                             THEN [num |-> MaxCount(m.task_types) * 100, den |-> total]
                             ELSE [num |-> 0, den |-> 1]]

\* PerformanceTracker._detect_specialization(): the two fields it stores.
\* percentage = count / total * 100 is compared with 40; for the counts
\* reached here the floating-point comparison agrees with 5 * count > 2 * total.
detect_specialization(m) ==
    IF m.total_tasks < 15 THEN m
    ELSE LET total == m.task_types["coding"] + m.task_types["documentation"]
                          + m.task_types["analysis"]
             specialized_types ==
                 {ty \in TaskTypes : m.task_types[ty] * 100 > 40 * total}
         IN  [m EXCEPT !.optimal_task_types = specialized_types,
                       !.specialization_score =
                           IF specialized_types # {}
                             THEN [num |-> MaxCount(m.task_types) * 100, den |-> total]
                             ELSE [num |-> 0, den |-> 1]]

\* log_task_result with the histories trimmed by pop() instead of pop(0)
log_task_result_Mut(m, task_type, success, duration, quality_score, t) ==
    LET Trim(q) == IF Len(q) > 20 THEN SubSeq(q, 1, 20) ELSE q
        hist == Trim(Append(m.success_history, IF success THEN 1 ELSE 0))
        logged ==
            [m EXCEPT
                !.total_tasks = @ + 1,
                !.task_types[task_type] = @ + 1,
                !.success_count = @ + (IF success THEN 1 ELSE 0),
                !.failure_count = @ + (IF success THEN 0 ELSE 1),
                !.consecutive_failures = IF success THEN 0 ELSE @ + 1,
                !.last_failure_time = IF success THEN @ ELSE t,
                !.response_time_history = Trim(Append(@, duration)),
                !.success_history = hist,
                !.quality_history = IF quality_score # None
                                      THEN Trim(Append(@, quality_score))
                                      ELSE @,
                !.performance_trend = analyze_performance_trend(hist)]
    IN  detect_specialization(logged)

\* PerformanceTracker.log_task_result()
log_task_result(m, task_type, success, duration, quality_score, t) ==
    LET hist == LastN(Append(m.success_history, IF success THEN 1 ELSE 0), 20)
        logged ==
            [m EXCEPT
                !.total_tasks = @ + 1,
                !.task_types[task_type] = @ + 1,
                !.success_count = @ + (IF success THEN 1 ELSE 0),
                !.failure_count = @ + (IF success THEN 0 ELSE 1),
                !.consecutive_failures = IF success THEN 0 ELSE @ + 1,
                !.last_failure_time = IF success THEN @ ELSE t,
                !.response_time_history = LastN(Append(@, duration), 20),
                !.success_history = hist,
                !.quality_history = IF quality_score # None
                                      THEN LastN(Append(@, quality_score), 20)
                                      ELSE @,
                !.performance_trend = analyze_performance_trend(hist)]
    IN  detect_specialization(logged)

\* PerformanceTracker.reset_worker_stats()
reset_worker_stats(m) ==
    [m EXCEPT !.consecutive_failures = 0, !.last_failure_time = None]

\* uptime_percentage < pct
UptimeBelow(m, pct) == m.success_count * 100 < pct * m.total_tasks

\* PerformanceTracker.is_worker_healthy(), the definition in force
is_worker_healthy(m, t) ==
    IF m.consecutive_failures >= MAX_CONSECUTIVE_FAILURES THEN FALSE
    ELSE IF m.total_tasks > 10 /\ UptimeBelow(m, 50) THEN FALSE
    ELSE IF /\ m.last_failure_time # None
            /\ t - m.last_failure_time < FAILURE_COOLDOWN
            /\ m.consecutive_failures >= 2
      THEN FALSE
    ELSE TRUE

NoTracked == [op |-> "none", ret |-> FALSE]

\* log_task_result(worker, task_type, success, duration)
LogTaskResult(success) ==
    /\ metrics.total_tasks < TrackerMaxTasks
    /\ metrics' = log_task_result(metrics, "coding", success, 1, None, now)
    /\ tracked' = NoTracked
    /\ UNCHANGED <<now, nonTrackerVars>>

\* reset_worker_stats(worker)
ResetWorkerStats ==
    /\ metrics' = reset_worker_stats(metrics)
    /\ tracked' = NoTracked
    /\ UNCHANGED <<now, nonTrackerVars>>

\* is_worker_healthy(worker)
IsWorkerHealthy ==
    /\ tracked' = [op |-> "is_worker_healthy", ret |-> is_worker_healthy(metrics, now)]
    /\ UNCHANGED <<now, metrics, nonTrackerVars>>

TrackerClock ==
    /\ now + TrackerStep <= TrackerMaxTime
    /\ now' = now + TrackerStep
    /\ tracked' = NoTracked
    /\ UNCHANGED <<metrics, nonTrackerVars>>

InitTracker ==
    /\ metrics = NoMetrics
    /\ tracked = NoTracked

NextTracker ==
    \/ \E success \in BOOLEAN : LogTaskResult(success)
    \/ ResetWorkerStats
    \/ IsWorkerHealthy
    \/ TrackerClock

(***************************************************************************)
(* ---------------------------  BLOCKING DEQUEUE  ------------------------ *)
(* task_queue.py: SmartTaskQueue.not_empty, a threading.Condition on       *)
(* SmartTaskQueue.lock.  Every method body runs with the lock held, so a   *)
(* call is one step up to the point where wait() releases the lock.        *)
(* A consumer is idle (not in a call), waiting (inside wait(), in the      *)
(* condition's waiter list), notified (released by notify(), not yet       *)
(* holding the lock again) or timedout (its wait(timeout) ran out; it is   *)
(* in the waiter list until it holds the lock again).                      *)
(***************************************************************************)
NumConsumers == 2
Consumers == 1..NumConsumers

NoCond ==
    [waiters |-> <<>>,
     pc |-> [c \in Consumers |-> "idle"],
     timeout |-> [c \in Consumers |-> FALSE],
     ret |-> [c \in Consumers |-> None]]

RECURSIVE Without(_, _)
Without(q, x) ==
    IF q = <<>> THEN <<>>
    ELSE IF Head(q) = x THEN Tail(q)
    ELSE <<Head(q)>> \o Without(Tail(q), x)

\* threading.Condition.wait(): join the waiter list and release the lock
wait(cd, c) ==
    [cd EXCEPT !.waiters = Append(Without(@, c), c), !.pc[c] = "waiting"]

\* SmartTaskQueue.dequeue(timeout) called by consumer c, up to its return
\* or its first wait()
BlockingDequeue(c, timeout) ==
    /\ cond.pc[c] = "idle"
    /\ IF queue = <<>>
         THEN /\ cond' = wait([cond EXCEPT !.timeout[c] = timeout, !.ret[c] = None], c)
              /\ UNCHANGED <<queue, processing, dispatched, qret>>
         ELSE LET r == heappop(tasks, queue)
              IN  /\ queue' = r.heap
                  /\ processing' = processing \cup {r.item}
                  /\ dispatched' = [dispatched EXCEPT ![r.item] = @ + 1]
                  /\ qret' = [op |-> "dequeue", ret |-> r.item]
                  /\ cond' = [cond EXCEPT !.timeout[c] = timeout, !.ret[c] = r.item]
    /\ UNCHANGED <<now, tasks, task_map, nonQueueCondVars>>

\* wait(timeout) of consumer c runs out
WaitTimeout(c) ==
    /\ cond.pc[c] = "waiting"
    /\ cond.timeout[c]
    /\ cond' = [cond EXCEPT !.pc[c] = "timedout"]
    /\ UNCHANGED <<now, queueVars, nonQueueCondVars>>

\* wait() of consumer c returns with the lock held: the rest of the loop
\* of SmartTaskQueue.dequeue
WaitReturns(c) ==
    /\ cond.pc[c] \in {"notified", "timedout"}
    /\ LET cd == [cond EXCEPT !.waiters = Without(@, c)]
       IN  IF queue = <<>>
             THEN /\ IF cond.timeout[c]
                       THEN /\ cond' = [cd EXCEPT !.pc[c] = "idle", !.ret[c] = None]
                            /\ qret' = [op |-> "dequeue", ret |-> None]
                       ELSE /\ cond' = wait(cd, c)
                            /\ UNCHANGED qret
                  /\ UNCHANGED <<queue, processing, dispatched>>
             ELSE LET r == heappop(tasks, queue)
                  IN  /\ queue' = r.heap
                      /\ processing' = processing \cup {r.item}
                      /\ dispatched' = [dispatched EXCEPT ![r.item] = @ + 1]
                      /\ qret' = [op |-> "dequeue", ret |-> r.item]
                      /\ cond' = [cd EXCEPT !.pc[c] = "idle", !.ret[c] = r.item]
    /\ UNCHANGED <<now, tasks, task_map, nonQueueCondVars>>

InitCond == cond = NoCond

NextBlocking ==
    \/ \E r \in QueueRetryChoices : Enqueue(2, r)
    \/ \E c \in Consumers, timeout \in BOOLEAN : BlockingDequeue(c, timeout)
    \/ \E c \in Consumers : WaitTimeout(c)
    \/ \E c \in Consumers : WaitReturns(c)
    \/ \E id \in processing, success \in BOOLEAN : MarkComplete(id, success)

(***************************************************************************)
(* ----------------------------  QUEUE DRAINING  ------------------------- *)
(* ai_router.py process_queued_tasks over tasks of several types and       *)
(* workers of several capabilities.  pool is the database restricted to    *)
(* ai_agents, user_tasks (status and task_type), task_assignments and      *)
(* task_queue.  Capabilities are whole type names, so capability LIKE      *)
(* '%type%' is equality.  No execution result is stored in these runs.     *)
(***************************************************************************)
DrainWorkers == 2
DrainMaxTasks == 2
DrainStep == 30            \* seconds the clock advances by
DrainMaxTime == 30
DrainAgentIds == 0..DrainWorkers
DrainTaskIds == 1..DrainMaxTasks
DrainTypes == {"coding", "documentation"}
DrainStatuses == {"idle", "busy", "failed"}

\* database.py init_database(): empty tables, plus the Master-Controller row
init_pool(t) ==
    [ai_agents |-> [a \in DrainAgentIds |->
        IF a = MasterController
          THEN [NoAgent EXCEPT !.present = TRUE, !.capability = "general",
                               !.host = "localhost", !.port = 8000,
                               !.status = "active", !.last_heartbeat = t]
          ELSE NoAgent],
     user_tasks |-> [id \in DrainTaskIds |-> "absent"],
     task_type |-> [id \in DrainTaskIds |-> NoValue],
     task_assignments |-> [id \in DrainTaskIds |-> None],
     task_queue |-> <<>>]

\* get_available_agents with >= written for > in the heartbeat test
get_available_agents_for_Mut(d, task_type, t) ==
    {a \in DOMAIN d.ai_agents :
        /\ d.ai_agents[a].present
        /\ d.ai_agents[a].last_heartbeat >= t - AGENT_FRESH_SECONDS
        /\ d.ai_agents[a].status # "failed"
        /\ \/ task_type \in {"general", "image_generation"}
           \/ d.ai_agents[a].capability = task_type
           \/ d.ai_agents[a].capability = "general"}

\* database.py get_available_agents(task_type)
get_available_agents_for(d, task_type, t) ==
    {a \in DOMAIN d.ai_agents :
        /\ d.ai_agents[a].present
        /\ d.ai_agents[a].last_heartbeat > t - AGENT_FRESH_SECONDS
        /\ d.ai_agents[a].status # "failed"
        /\ \/ task_type \in {"general", "image_generation"}
           \/ d.ai_agents[a].capability = task_type
           \/ d.ai_agents[a].capability = "general"}

\* The agents select_best_agent_by_performance may return for a task type
BestAgentFor(d, task_type, t) ==
    LET healthy_agents ==
            filter_by_hardware_health(d, get_available_agents_for(d, task_type, t))
    IN  IF healthy_agents = {} THEN {None}
        ELSE select_best_agent_by_performance(d, healthy_agents)

\* ai_router.py route_with_fallback(task_id, task_desc, task_type), called
\* with use_master_brain left at its default True
route_by_type(d, task_id, task_type, best_agent, t) ==
    LET agents == get_available_agents_for(d, task_type, t)
    IN  IF agents = {} THEN d
        ELSE IF d.ai_agents[best_agent].status = "busy"
          THEN queue_task(d, task_id, 1).db
        ELSE assign_task_to_agent(d, task_id, best_agent).db

\* ai_router.py process_queued_tasks(): the head of the queue is routed again
process_queued_tasks(d, best_agent, t) ==
    LET next_task == get_next_queued_task(d)
    IN  IF next_task = None THEN d
        ELSE route_by_type(d, next_task, d.task_type[next_task], best_agent, t)

\* register_agent(w, capability, ...)
PoolRegister(w, capability) ==
    /\ pool' = register_agent(pool, w, capability, "localhost", 5000,
                              [cpu |-> 0, memory |-> 0], now).db
    /\ UNCHANGED <<now, nonPoolVars>>

\* update_agent_heartbeat(w, status, ...)
PoolHeartbeat(w, status) ==
    /\ pool' = update_agent_heartbeat(pool, w, status, [cpu |-> 0, memory |-> 0], now).db
    /\ UNCHANGED <<now, nonPoolVars>>

\* create_task(user, desc, task_type)
PoolCreateTask(task_type) ==
    LET id == Cardinality({i \in DrainTaskIds : pool.user_tasks[i] # "absent"}) + 1
    IN  /\ id <= DrainMaxTasks
        /\ pool' = [pool EXCEPT !.user_tasks[id] = "pending", !.task_type[id] = task_type]
        /\ UNCHANGED <<now, nonPoolVars>>

\* intelligent_route(task_id, desc, task_type) of a new task
PoolRoute(task_id) ==
    /\ pool.user_tasks[task_id] = "pending"
    /\ \E best_agent \in BestAgentFor(pool, pool.task_type[task_id], now) :
            pool' = route_by_type(pool, task_id, pool.task_type[task_id], best_agent, now)
    /\ UNCHANGED <<now, nonPoolVars>>

\* process_queued_tasks()
PoolProcessQueued ==
    /\ LET next_task == get_next_queued_task(pool)
           task_type == IF next_task = None THEN "general" ELSE pool.task_type[next_task]
       IN  \E best_agent \in BestAgentFor(pool, task_type, now) :
                pool' = process_queued_tasks(pool, best_agent, now)
    /\ UNCHANGED <<now, nonPoolVars>>

PoolClock ==
    /\ now + DrainStep <= DrainMaxTime
    /\ now' = now + DrainStep
    /\ UNCHANGED <<pool, nonPoolVars>>

InitPool == pool = init_pool(0)

NextDrain ==
    \/ \E w \in DrainAgentIds \ {MasterController}, c \in DrainTypes : PoolRegister(w, c)
    \/ \E w \in DrainAgentIds \ {MasterController}, s \in DrainStatuses : PoolHeartbeat(w, s)
    \/ \E ty \in DrainTypes : PoolCreateTask(ty)
    \/ \E id \in DrainTaskIds : PoolRoute(id)
    \/ PoolProcessQueued
    \/ PoolClock

(***************************************************************************)
(* ------------------------  CONCURRENT ROUTING  ------------------------- *)
(* ai_router.py route_with_fallback run by several controller processes    *)
(* on the one database (every replica processes requests when              *)
(* ENABLE_MASTER_FAILOVER is off).  Each function of database.py opens its *)
(* own connection and commits on its own, so a call is two steps: the      *)
(* SELECT of get_available_agents with the choice of best_agent, made on   *)
(* the rows fetched, and then the queue_task or assign_task_to_agent.      *)
(* Inside one event loop the calls do not interleave: route_with_fallback  *)
(* has no await.                                                           *)
(***************************************************************************)
NumRouters == 2
Routers == 1..NumRouters

IdleRouter == [pc |-> "idle", task_id |-> None, best_agent |-> None, status |-> NoValue]

\* route_with_fallback up to the choice of best_agent (ai_router.py:134-158);
\* status is best_agent['status'] of the fetched row
RouteChoose(r, task_id) ==
    /\ routers[r].pc = "idle"
    /\ pool.user_tasks[task_id] = "pending"
    /\ \A o \in Routers : routers[o].task_id # task_id
    /\ \E best_agent \in BestAgentFor(pool, pool.task_type[task_id], now) :
          routers' = [routers EXCEPT ![r] =
              [pc |-> "chosen", task_id |-> task_id, best_agent |-> best_agent,
               status |-> IF best_agent = None THEN NoValue
                          ELSE pool.ai_agents[best_agent].status]]
    /\ UNCHANGED <<now, pool, nonRaceVars>>

\* route_with_fallback from the busy test on (ai_router.py:164-183)
RouteAct(r) ==
    /\ routers[r].pc = "chosen"
    /\ LET c == routers[r]
       IN  pool' = IF c.best_agent = None THEN pool
                   ELSE IF c.status = "busy"
                     THEN queue_task(pool, c.task_id, 1).db
                   ELSE assign_task_to_agent(pool, c.task_id, c.best_agent).db
    /\ routers' = [routers EXCEPT ![r] = IdleRouter]
    /\ UNCHANGED <<now, nonRaceVars>>

InitRace == routers = [r \in Routers |-> IdleRouter]

NextRace ==
    \/ \E w \in DrainAgentIds \ {MasterController}, c \in DrainTypes : PoolRegister(w, c)
    \/ \E w \in DrainAgentIds \ {MasterController}, s \in DrainStatuses : PoolHeartbeat(w, s)
    \/ \E ty \in DrainTypes : PoolCreateTask(ty)
    \/ \E r \in Routers, id \in DrainTaskIds : RouteChoose(r, id)
    \/ \E r \in Routers : RouteAct(r)
    \/ PoolClock

\* ---------------------------------------------------------------------------
\* performance_tracker.py: the rolling histories over a long run of results
\* ---------------------------------------------------------------------------
HistMaxTasks == 22     \* log_task_result calls in a run
HistMaxRare == 1       \* failures, slow results and results without a quality score in a run
HistDurations == {1, 2}
HistQualities == {None, 5}

NoArrivals == [durations |-> <<>>, outcomes |-> <<>>, qualities |-> <<>>]

\* how many entries of q equal v
Occurrences(q, v) == Cardinality({i \in DOMAIN q : q[i] = v})

\* log_task_result(worker, task_type, success, duration, quality_score=...)
LogHistory(success, duration, quality_score) ==
    /\ metrics.total_tasks < HistMaxTasks
    /\ ~success => metrics.failure_count < HistMaxRare
    /\ duration = 2 => Occurrences(arrivals.durations, 2) < HistMaxRare
    /\ quality_score = None =>
           metrics.total_tasks - Len(arrivals.qualities) < HistMaxRare
    /\ metrics' = log_task_result(metrics, "coding", success, duration, quality_score, now)
    /\ arrivals' = [durations |-> Append(arrivals.durations, duration),
                    outcomes |-> Append(arrivals.outcomes, IF success THEN 1 ELSE 0),
                    qualities |-> IF quality_score # None
                                    THEN Append(arrivals.qualities, quality_score)
                                    ELSE arrivals.qualities]
    /\ UNCHANGED <<now, tracked, nonHistoryVars>>

InitHistory ==
    /\ arrivals = NoArrivals

NextHistory ==
    \/ \E success \in BOOLEAN, duration \in HistDurations, quality_score \in HistQualities :
          LogHistory(success, duration, quality_score)
    \/ ResetWorkerStats

\* ---------------------------------------------------------------------------
\* performance_tracker.py: the trend over a long run of outcomes
\* ---------------------------------------------------------------------------
TrendMaxTasks == 21      \* log_task_result calls in a run
TrendMaxFailures == 5    \* failed results in a run

\* log_task_result(worker, task_type, success, duration)
LogOutcome(success) ==
    /\ metrics.total_tasks < TrendMaxTasks
    /\ ~success => metrics.failure_count < TrendMaxFailures
    /\ metrics' = log_task_result(metrics, "coding", success, 1, None, now)
    /\ tracked' = NoTracked
    /\ UNCHANGED <<now, nonTrackerVars>>

NextTrend ==
    \E success \in BOOLEAN : LogOutcome(success)

\* ---------------------------------------------------------------------------
\* performance_tracker.py: specialization over a run of mixed task types
\* ---------------------------------------------------------------------------
SpecialMaxTasks == 16    \* log_task_result calls in a run

\* log_task_result(worker, task_type, success, duration)
LogType(task_type) ==
    /\ metrics.total_tasks < SpecialMaxTasks
    /\ metrics' = log_task_result(metrics, task_type, TRUE, 1, None, now)
    /\ tracked' = NoTracked
    /\ UNCHANGED <<now, nonTrackerVars>>

NextSpecial ==
    \E task_type \in TaskTypes : LogType(task_type)

Init ==
    /\ now = 0
    /\ InitHistory
    /\ InitRace
    /\ InitPool
    /\ InitCond
    /\ InitTracker
    /\ InitCancel
    /\ InitReg
    /\ InitCtx
    /\ InitPlan
    /\ InitElect
    /\ InitConc
    /\ InitRouter
    /\ InitQueue
    /\ InitFailover
    /\ InitCache

Next == NextFailover \/ NextCache \/ NextQueue \/ NextTasks \/ NextHealth \/ NextCacheConc \/ NextElect \/ NextPlan \/ NextCtx \/ NextReg \/ NextCancel \/ NextTracker \/ NextBlocking \/ NextDrain \/ NextRace \/ NextHistory \/ NextTrend \/ NextSpecial

Spec == Init /\ [][Next]_vars
\* The leader monitor is run under either setting of ENABLE_MASTER_FAILOVER
InitAnyConfig ==
    /\ now = 0
    /\ failover_enabled \in BOOLEAN
    /\ mpc = [m \in Masters |-> "new"]
    /\ is_active = [m \in Masters |-> FALSE]
    /\ last_heartbeat = [m \in Masters |-> None]
    /\ elected = [m \in Masters |-> None]
    /\ InitCache
    /\ InitQueue
    /\ InitRouter
    /\ InitConc
    /\ InitElect
    /\ InitPlan
    /\ InitCtx
    /\ InitReg
    /\ InitCancel
    /\ InitTracker
    /\ InitCond
    /\ InitPool
    /\ InitRace
    /\ InitHistory
SpecFailover == InitAnyConfig /\ [][NextFailover]_vars
SpecCache == Init /\ [][NextCache]_vars
SpecQueue == Init /\ [][NextQueue]_vars

\* The queue under enqueue and dequeue calls only
NextQueueOrder ==
    \/ \E p \in QueuePriorities, r \in QueueRetryChoices : Enqueue(p, r)
    \/ Dequeue
    \/ DequeueTimeout
SpecQueueOrder == Init /\ [][NextQueueOrder]_vars
SpecTasks == Init /\ [][NextTasks]_vars
SpecHealth == Init /\ [][NextHealth]_vars
SpecMonitor == Init /\ [][NextMonitor]_vars
SpecCacheConc == Init /\ [][NextCacheConc]_vars
SpecElect == Init /\ [][NextElect]_vars
SpecSpecial == Init /\ [][NextSpecial]_vars
SpecTrend == Init /\ [][NextTrend]_vars
SpecHistory == Init /\ [][NextHistory]_vars
SpecRace == Init /\ [][NextRace]_vars
\* process_queued_tasks is invoked again and again
SpecDrain == Init /\ [][NextDrain]_vars /\ SF_vars(PoolProcessQueued)
SpecBlocking == Init /\ [][NextBlocking]_vars
SpecTracker == Init /\ [][NextTracker]_vars
SpecCancel == Init /\ [][NextCancel]_vars
SpecReg == Init /\ [][NextReg]_vars
SpecCtx == Init /\ [][NextCtx]_vars
SpecPlan == Init /\ [][NextPlan]_vars

\* The replica rows a quiescent observer reads (get_master_status)
LiveActiveRecords ==
    LET recs == get_all_masters(now)
    IN  {i \in DOMAIN recs : recs[i].active /\ HbAlive(recs[i], now)}

(***************************************************************************)
(* ------------------------------  CLAIMS  ------------------------------- *)
(***************************************************************************)

\* C1 -- Leader uniqueness: in every (quiescent) state at most one replica
\* record is active with a heartbeat age below MASTER_TIMEOUT; and, with
\* failover enabled, at most one running replica believes itself active.
LeaderUniqueness ==
    /\ Cardinality(LiveActiveRecords) <= 1
    /\ failover_enabled =>
         Cardinality({m \in Masters : mpc[m] = "monitoring" /\ is_active[m]}) <= 1

\* C1 witness: several replicas ran the monitor, one crashed, the other has
\* held an election since, and one live active record is observed.
LeaderUniquenessWitness ==
    /\ failover_enabled
    /\ \E m \in Masters : mpc[m] = "crashed" /\ is_active[m]
    /\ \E m \in Masters : mpc[m] = "monitoring" /\ elected[m] # None
                          /\ last_heartbeat[m] = now /\ now > 0
    /\ Cardinality(LiveActiveRecords) = 1

\* C2 -- Failover liveness (S1): master-1 was active and stopped heartbeating;
\* once master-2 has run a monitor tick MASTER_TIMEOUT or more after master-1's
\* last heartbeat, master-2 is active and should_process_request(master-2)
\* is true.
FailoverTakesOver ==
    ( /\ failover_enabled
      /\ mpc[1] = "crashed" /\ is_active[1]
      /\ mpc[2] = "monitoring" /\ elected[2] # None
      /\ last_heartbeat[2] - last_heartbeat[1] >= MASTER_TIMEOUT )
    => (is_active[2] /\ should_process_request(2))

\* C6 (as stated) -- Cache soundness: a value returned by get(k) is the one
\* given to the most recent set(k, v), and that set happened less than TTL
\* seconds ago (insert_time > now - TTL).
CacheSoundnessStrict ==
    (got.op = "get" /\ got.result # NoValue) =>
        /\ lastSet[got.key] # NoSet
        /\ got.result = lastSet[got.key].response
        /\ lastSet[got.key].at > now - TTL

\* C6 (amended) -- a value returned by get(k) is the one given to the most
\* recent set(k, v), and that set happened at most TTL seconds ago
\* (insert_time >= now - TTL).
CacheSoundness ==
    (got.op = "get" /\ got.result # NoValue) =>
        /\ lastSet[got.key] # NoSet
        /\ got.result = lastSet[got.key].response
        /\ lastSet[got.key].at >= now - TTL

\* C6 witness: a get returns a value for a key that was set more than once,
\* with different values, the entry being exactly TTL old.
CacheSoundnessWitness ==
    /\ got.op = "get" /\ got.result = "r2"
    /\ got.age = TTL
    /\ stats.misses > 0

\* C7 -- Cache expiry: a get that finds an entry older than TTL reports a
\* miss and deletes it; a get of an absent key misses and leaves it absent
\* (only set inserts); an entry older than TTL is never returned.
CacheExpiry ==
    /\ (got.op = "get" /\ got.found /\ got.age > TTL) =>
            (got.result = NoValue /\ got.key \notin KeysOf(cache))
    /\ (got.op = "get" /\ ~got.found) =>
            (got.result = NoValue /\ got.key \notin KeysOf(cache))
    /\ (got.op = "get" /\ got.result # NoValue) => (got.found /\ got.age <= TTL)

\* C7 witness: a get has just found an entry older than TTL (and missed),
\* after an earlier get of the same cache had hit.
CacheExpiryWitness ==
    /\ got.op = "get" /\ got.found /\ got.age > TTL
    /\ stats.hits > 0 /\ stats.evictions > 0

\* C8 -- Cache capacity: the cache never holds more than max_entries
\* entries; a set of an absent key into a full cache removes exactly one
\* entry, one whose insert timestamp is the oldest, and every entry's
\* timestamp is that of its key's latest set (reads do not refresh it).
CacheCapacity ==
    /\ Len(cache) <= MAX_ENTRIES
    /\ \A i \in DOMAIN cache :
          lastSet[cache[i].key] # NoSet /\ cache[i].timestamp = lastSet[cache[i].key].at
    /\ (got.op = "set" /\ got.len_before >= MAX_ENTRIES /\ ~got.present_before) =>
          /\ Cardinality(got.gone) = 1
          /\ \A e \in got.gone : e.timestamp = got.min_before
          /\ Len(cache) = got.len_before
    /\ (got.op = "set" /\ ~(got.len_before >= MAX_ENTRIES /\ ~got.present_before)) =>
          got.gone = {}

\* C8 witness: a set into a full cache evicted the older of two entries of
\* different age, the evicted one having been read (hit) after it was stored.
CacheCapacityWitness ==
    /\ got.op = "set" /\ got.len_before = MAX_ENTRIES /\ ~got.present_before
    /\ \E e \in got.gone : e.hit_count > 0 /\ e.timestamp = got.min_before
    /\ \E i \in DOMAIN cache : cache[i].timestamp > got.min_before
                               /\ cache[i].key # got.key

\* The number of copies of a task id waiting in the heap
Waiting(id) == Cardinality({i \in DOMAIN queue : queue[i] = id})

\* C4 -- Retry bound: dequeue hands a task out at most max_retries + 1 times
\* (the copies still waiting included); a failed mark_complete of a task that
\* has used all its retries returns True, queues nothing and forgets the
\* task; and a task id that task_map no longer holds is never queued again.
RetryBound ==
    /\ \A id \in DOMAIN tasks :
          dispatched[id] + Waiting(id) <= tasks[id].max_retries + 1
    /\ (qret.op = "mark_complete" /\ qret.known /\ ~qret.success
            /\ qret.retry_before = tasks[qret.id].max_retries) =>
          (qret.ret = "True" /\ ~qret.pushed /\ qret.id \notin task_map)
    /\ (qret.op = "mark_complete" /\ ~qret.known) =>
          (qret.ret = NoValue /\ ~qret.pushed /\ qret.id \notin task_map)

\* C4 witness: a task with a retry allowance was handed out max_retries + 1
\* times and its last failure has just been reported complete.
RetryBoundWitness ==
    /\ qret.op = "mark_complete" /\ qret.known /\ ~qret.success
    /\ qret.ret = "True"
    /\ tasks[qret.id].max_retries > 0
    /\ dispatched[qret.id] = tasks[qret.id].max_retries + 1

\* C10 -- Queue bound: the number of waiting tasks never exceeds max_size;
\* an enqueue attempted while max_size tasks are waiting raises and leaves
\* the queue unchanged.
QueueBound ==
    /\ Len(queue) <= QUEUE_MAX_SIZE
    /\ (qret.op = "enqueue" /\ qret.len_before >= QUEUE_MAX_SIZE) =>
          (qret.raised /\ ~qret.changed)

\* C3 -- Dead worker exclusion: a worker the health monitor classifies as
\* dead is never in the candidate set a routing call selects from.
DeadWorkerExcluded ==
    routed.op \in {"route", "process"} => routed.candidates \cap routed.dead = {}

\* C5 -- Monotonic task progress: a task whose status is completed, failed or
\* cancelled never goes back to pending, queued, assigned or processing.
MonotonicTaskProgress ==
    [][\A id \in DbTaskIds :
          db.user_tasks[id] \in TerminalStatuses
              => db'.user_tasks[id] \notin LiveStatuses]_vars

\* C9 -- Cache concurrency safety: no interleaving of get, set and
\* clear_expired calls issued by different threads ends a call with an
\* exception.
CacheThreadSafe ==
    \A th \in Threads : cthreads[th].raised = NoValue

\* C11 -- Queue ordering: dequeue returns a waiting task of the most urgent
\* priority present and, among the waiting tasks of that priority, the one
\* enqueued first (task ids count the enqueues).
QueueOrdering ==
    [][Len(queue') = Len(queue) - 1 =>
          \A i \in DOMAIN queue :
              /\ tasks[qret'.ret].priority <= tasks[queue[i]].priority
              /\ tasks[queue[i]].priority = tasks[qret'.ret].priority
                    => qret'.ret <= queue[i]]_vars

\* C12 -- should_process_request(replica) is true exactly when master
\* failover is disabled or the replica's is_active flag is set; with
\* failover enabled a standby replica gets false.
ProcessIffActive ==
    \A m \in Masters :
        /\ should_process_request(m) <=> (~failover_enabled \/ is_active[m])
        /\ (failover_enabled /\ ~is_active[m]) => ~should_process_request(m)

\* C12 witness: with failover enabled, a monitoring replica is active and
\* answers true while a monitoring standby answers false.
ProcessIffActiveWitness ==
    /\ failover_enabled
    /\ \E m \in Masters : mpc[m] = "monitoring" /\ is_active[m]
                          /\ should_process_request(m)
    /\ \E m \in Masters : mpc[m] = "monitoring" /\ elected[m] # None
                          /\ ~is_active[m] /\ ~should_process_request(m)

\* The rows of the election just held that are live (heartbeat age below
\* MASTER_TIMEOUT), and those of them flagged active
LiveRows ==
    {i \in DOMAIN election.all_masters :
        /\ election.all_masters[i].last_heartbeat \notin {None, Malformed}
        /\ election.at - election.all_masters[i].last_heartbeat < MASTER_TIMEOUT}
LiveActiveRows == {i \in LiveRows : election.all_masters[i].active}

\* C13 -- Sticky leadership: when some replica is flagged active with a
\* heartbeat age below MASTER_TIMEOUT, elect_leader returns such a replica,
\* whatever other replicas are live.
StickyLeadership ==
    (election.op = "elect" /\ LiveActiveRows # {}) =>
        election.result \in {election.all_masters[i].master_id : i \in LiveActiveRows}

\* C13 witness: the active replica is live, a replica of smaller id is live
\* too and comes first in the table, and the active one is returned.
StickyLeadershipWitness ==
    /\ election.op = "elect"
    /\ Len(election.all_masters) = 2
    /\ LiveRows = {1, 2} /\ LiveActiveRows = {2}
    /\ election.all_masters[1].master_id < election.all_masters[2].master_id
    /\ election.result = election.all_masters[2].master_id

\* C14 -- When no active replica is live and some replica is live,
\* elect_leader returns the smallest id among the live replicas.
SmallestLiveElected ==
    (election.op = "elect" /\ LiveActiveRows = {} /\ LiveRows # {}) =>
        /\ election.result \in {election.all_masters[i].master_id : i \in LiveRows}
        /\ \A i \in LiveRows : election.result <= election.all_masters[i].master_id

\* C14 witness: no active replica is live, two replicas are live with the
\* larger id first in the table, the caller is the larger one, and the
\* smaller id is returned.
SmallestLiveElectedWitness ==
    /\ election.op = "elect"
    /\ LiveActiveRows = {} /\ LiveRows = {1, 2}
    /\ election.all_masters[1].master_id > election.all_masters[2].master_id
    /\ election.self = election.all_masters[1].master_id
    /\ election.result = election.all_masters[2].master_id

\* C15 -- Plan shape: for every oracle reply, and without an oracle,
\* plan_task returns a steps list that is non-empty, has at most 3 entries
\* and holds only coding, documentation, analysis or general.
PlanShape ==
    plan.op = "plan" =>
        /\ Len(plan.steps) >= 1
        /\ Len(plan.steps) <= 3
        /\ \A i \in DOMAIN plan.steps : plan.steps[i] \in VALID_STEPS

\* C16 -- Context minimality: whenever the verdict of the context analysis
\* is that the message is no continuation (is_continuation false), the
\* context built for the worker holds no text of a prior conversation turn,
\* for every oracle reply and every conversation history.
ContextMinimality ==
    (ctx.op = "context" /\ ~ctx.is_continuation) =>
        \A i \in DOMAIN ctx.context_string, j \in DOMAIN ctx.history :
            ctx.context_string[i].text # ctx.history[j].content

\* C17 -- Registration is idempotent by worker name: after a registration
\* of a name that is already registered, with possibly different
\* capability, host, port and hardware telemetry, the registry holds one
\* row for the name and every field of the row has the value given in that
\* most recent registration.
RegistrationIdempotent ==
    (reg.op = "register" /\ reg.known) =>
        LET row == db.ai_agents[reg.name]
        IN  /\ row.present
            /\ row.capability = reg.capability
            /\ row.host = reg.host
            /\ row.port = reg.port
            /\ row.cpu_usage = reg.hw.cpu
            /\ row.memory_usage = reg.hw.memory
            /\ row.status = "idle"
            /\ row.last_heartbeat = reg.time

\* C18 -- Cancellation removes a task from the queue: after enqueue(t)
\* followed by cancel(t), no later dequeue returns t, whatever other tasks
\* are enqueued or dequeued in between.
CancelRemoves ==
    qret.op = "dequeue" => qret.ret \notin cancelled

\* The age of a worker's last heartbeat
HeartbeatAge(w) == now - worker_health[w].last_heartbeat

CircuitBreaker ==
    [][\A w \in Workers :
          /\ (/\ routed'.op = "failure" /\ routed'.agent = w
              /\ worker_health[w].known
              /\ worker_health'[w].consecutive_failures = FAILURE_THRESHOLD)
                 => worker_health'[w].health_status = "dead"
          /\ (/\ worker_health[w].health_status = "dead"
              /\ ~(routed'.op = "heartbeat" /\ routed'.agent = w))
                 => worker_health'[w].health_status = "dead"]_vars

\* The third consecutive failure has just been recorded
CircuitBreakerWitness ==
    /\ routed.op = "failure"
    /\ worker_health[routed.agent].known
    /\ worker_health[routed.agent].consecutive_failures = FAILURE_THRESHOLD
    /\ worker_health[routed.agent].health_status = "dead"

\* C21 -- Assignment effects: when route_with_fallback returns assigned for
\* task t with worker w, then afterwards the assignment row of t points to
\* w, w's status is busy and t's status is assigned; and a task never has
\* more than one assignment row: the row a task has is never replaced by or
\* joined with another.
AssignmentEffects ==
    /\ [](routed.status = "assigned" =>
            /\ db.task_assignments[routed.task_id] = routed.agent
            /\ db.ai_agents[routed.agent].status = "busy"
            /\ db.user_tasks[routed.task_id] = "assigned")
    /\ [][\A id \in DbTaskIds :
             db.task_assignments[id] # None
                 => db'.task_assignments[id] = db.task_assignments[id]]_vars

\* A routing call has just assigned a task to a registered worker
AssignmentEffectsWitness ==
    /\ routed.op = "route"
    /\ routed.status = "assigned"
    /\ routed.agent \in Workers
    /\ db.task_assignments[routed.task_id] = routed.agent

\* The live workers of a routing call are all overloaded: some exist and
\* none has cpu < 80% and memory < 90%
AllOverloaded(d, t) ==
    LET agents == get_available_agents(d, t)
    IN  /\ agents # {}
        /\ \A a \in agents : ~(/\ d.ai_agents[a].cpu_usage < CPU_THRESHOLD
                               /\ d.ai_agents[a].memory_usage < MEMORY_THRESHOLD)

\* C22 -- Overload handling: when live workers exist but none of them has
\* cpu < 80% and memory < 90%, route_with_fallback assigns no worker,
\* enqueues the task at priority 2 and returns queued_overload.
OverloadHandling ==
    [][(/\ routed'.op \in {"route", "process"}
        /\ routed'.task_id # None
        /\ routed'.status # "raised"
        /\ AllOverloaded(db, now))
           => /\ routed'.status = "queued_overload"
              /\ routed'.agent = None
              /\ db'.task_assignments = db.task_assignments
              /\ \E i \in DOMAIN db'.task_queue :
                     db'.task_queue[i] = [task_id |-> routed'.task_id, priority |-> 2]]_vars

\* C23 -- Busy top worker: when the top-ranked candidate's status is busy,
\* route_with_fallback assigns no worker, enqueues the task at priority 1
\* with the queue entry bound to that worker's name, and returns
\* queued_for_<name>.
BusyTopWorker ==
    [][\A top \in AgentIds :
          (/\ routed'.op \in {"route", "process"}
           /\ routed'.task_id # None
           /\ routed'.status # "raised"
           /\ BestAgentChoices(db, now) = {top}
           /\ db.ai_agents[top].status = "busy")
              => /\ routed'.status = "queued_for"
                 /\ routed'.queued_for = top
                 /\ routed'.agent = None
                 /\ db'.task_assignments = db.task_assignments
                 /\ \E i \in DOMAIN db'.task_queue :
                        LET row == db'.task_queue[i]
                        IN  /\ row.task_id = routed'.task_id
                            /\ row.priority = 1
                            /\ "agent_name" \in DOMAIN row
                            /\ row.agent_name = top]_vars

\* The worker a routing call selected: the one it assigned, or the busy one
\* it queued the task for
Selected == IF routed.status = "assigned" THEN routed.agent ELSE routed.queued_for

DeadUntilHeartbeat ==
    /\ [][\A w \in Workers :
             /\ (/\ worker_health[w].health_status = "dead"
                 /\ ~(routed'.op = "heartbeat" /\ routed'.agent = w))
                    => /\ worker_health'[w].health_status = "dead"
                       /\ routed'.op = "healthy" => w \notin routed'.candidates
             /\ (routed'.op = "heartbeat" /\ routed'.agent = w)
                    => /\ worker_health'[w].consecutive_failures = 0
                       /\ worker_health'[w].health_status = "healthy"]_vars
    /\ [](routed.op = "healthy" =>
            \A w \in routed.candidates :
                /\ worker_health[w].known
                /\ worker_health[w].health_status \in {"healthy", "degraded"})

\* get_healthy_workers has just left out a dead worker whose heartbeat is
\* stale as well
DeadUntilHeartbeatWitness ==
    /\ routed.op = "healthy"
    /\ \E w \in Workers :
           /\ worker_health[w].health_status = "dead"
           /\ HeartbeatAge(w) > HEALTH_THRESHOLD
           /\ w \notin routed.candidates

\* The consecutive-failure limit the claim gives
ClaimedFailureLimit(m) ==
    IF m.total_tasks < 5 THEN MAX_CONSECUTIVE_FAILURES + 2
    ELSE IF m.performance_trend = "improving" THEN MAX_CONSECUTIVE_FAILURES + 1
    ELSE MAX_CONSECUTIVE_FAILURES

\* The other tests of is_worker_healthy: low uptime, a failure in the last
\* five minutes
OtherUnhealthy(m, t) ==
    \/ m.total_tasks > 10 /\ UptimeBelow(m, 50)
    \/ m.last_failure_time # None /\ t - m.last_failure_time < FAILURE_COOLDOWN

\* C26 -- Adaptive circuit breaker: the consecutive-failure limit applied by
\* is_worker_healthy is 3 by default, 5 for a worker with fewer than 5 total
\* tasks and 4 for a worker whose trend is improving; so a worker with fewer
\* than 5 total tasks is still reported healthy by this rule at 3 or 4
\* consecutive failures.
AdaptiveBreaker ==
    tracked.op = "is_worker_healthy" =>
        /\ metrics.consecutive_failures >= ClaimedFailureLimit(metrics) => ~tracked.ret
        /\ (/\ metrics.consecutive_failures < ClaimedFailureLimit(metrics)
            /\ ~OtherUnhealthy(metrics, now)) => tracked.ret

\* A consumer that left wait() and has not yet taken the lock again
Pending(c) == cond.pc[c] \in {"notified", "timedout"}

\* C27 -- Blocking dequeue: a consumer blocked in dequeue on an empty queue
\* returns a task once the queue becomes non-empty, whichever operation put
\* the task there (enqueue or the retry re-queue of mark_complete): while
\* the queue holds a task, a consumer is still inside wait() only if some
\* consumer has left wait() and is about to take the lock.
BlockingDequeueWakes ==
    \A c \in Consumers :
        (cond.pc[c] = "waiting" /\ queue # <<>>) => \E d \in Consumers : Pending(d)

\* A queued task with a live, idle worker of its type
Assignable(id) ==
    /\ pool.user_tasks[id] = "queued"
    /\ \E a \in get_available_agents_for(pool, pool.task_type[id], now) :
            pool.ai_agents[a].status = "idle"

\* C28 -- Queue draining: under repeated (fair) invocation of
\* process_queued_tasks, every queued task for which a live, idle, capable
\* worker exists is eventually assigned, even when another queued task that
\* is earlier or of higher priority cannot currently be assigned: no task
\* stays queued for ever with such a worker at hand.
QueueDrains == \A id \in DrainTaskIds : []<>~Assignable(id)

\* No replica has crashed or is between its construction and its monitor,
\* and every running replica has completed a monitor tick
MonitorsSettled ==
    /\ failover_enabled
    /\ \A m \in Masters : mpc[m] \in {"new", "monitoring"}
    /\ \E m \in Masters : mpc[m] = "monitoring"
    /\ \A m \in Masters : mpc[m] = "monitoring" => elected[m] # None

\* C29 -- Convergence of self-transitions: once every live replica has
\* completed one failover_monitor tick after the last crash or leadership
\* change, the replica named by the election has is_active = true and every
\* other replica has is_active = false, so at most one controller is active.
SelfTransitionsConverge ==
    MonitorsSettled =>
        /\ \A m \in Masters : mpc[m] = "monitoring" =>
              /\ is_active[elected[m]]
              /\ \A o \in Masters \ {elected[m]} : ~is_active[o]
        /\ Cardinality({m \in Masters : is_active[m]}) <= 1

\* The ids of the rows whose heartbeat is a timestamp younger than
\* MASTER_TIMEOUT at the time of the election
YoungIds ==
    {election.all_masters[i].master_id : i \in
        {j \in DOMAIN election.all_masters :
            /\ election.all_masters[j].last_heartbeat >= 0
            /\ election.at - election.all_masters[j].last_heartbeat < MASTER_TIMEOUT}}

\* C30 -- A replica record whose heartbeat timestamp is missing or malformed
\* is treated as expired by elect_leader: it is never kept as leader and
\* never counted as alive, so elect_leader always returns either a replica
\* whose heartbeat age is below MASTER_TIMEOUT or, when no such replica
\* exists, the calling replica's own id.
MalformedExpired ==
    election.op = "elect" =>
        IF YoungIds # {} THEN election.result \in YoungIds
        ELSE election.result = election.self

\* C30 witness: the active row of a smaller id has a malformed heartbeat and
\* the election went to the other replica, whose heartbeat is young
MalformedExpiredWitness ==
    /\ election.op = "elect"
    /\ Len(election.all_masters) = 2
    /\ election.all_masters[1].active
    /\ election.all_masters[1].last_heartbeat = Malformed
    /\ election.all_masters[1].master_id < election.all_masters[2].master_id
    /\ election.self = election.all_masters[1].master_id
    /\ election.result = election.all_masters[2].master_id

\* C31 -- Registry counters: each successful store_execution_result
\* increases the worker's total_tasks by exactly 1 and exactly one of
\* successful_tasks (on success) or failed_tasks (on failure) by 1, so
\* total_tasks = successful_tasks + failed_tasks holds for every worker in
\* every state, and the worker's status is idle afterwards regardless of
\* the outcome.
RegistryCounters ==
    /\ [](\A a \in AgentIds :
            db.ai_agents[a].total_tasks
                = db.ai_agents[a].successful_tasks + db.ai_agents[a].failed_tasks)
    /\ [][(routed'.op = "store" /\ routed'.status = "stored") =>
            LET a == routed'.agent
                res == db'.execution_results[Len(db'.execution_results)]
                old == db.ai_agents[a]
                new == db'.ai_agents[a]
            IN  /\ Len(db'.execution_results) = Len(db.execution_results) + 1
                /\ res.agent_id = a
                /\ new.total_tasks = old.total_tasks + 1
                /\ new.successful_tasks
                      = old.successful_tasks + (IF res.success THEN 1 ELSE 0)
                /\ new.failed_tasks
                      = old.failed_tasks + (IF res.success THEN 0 ELSE 1)
                /\ new.status = "idle"]_vars

\* C31 witness: a failed result has just been stored for a worker that was
\* busy with the task
RegistryCountersWitness ==
    /\ routed.op = "store"
    /\ routed.status = "stored"
    /\ routed.agent \in Workers
    /\ db.task_assignments[routed.task_id] = routed.agent
    /\ db.user_tasks[routed.task_id] = "failed"
    /\ db.ai_agents[routed.agent].failed_tasks = 1
    /\ db.ai_agents[routed.agent].status = "idle"

\* The tasks that have a row in execution_results
StoredTasks(d) == {d.execution_results[i].task_id : i \in DOMAIN d.execution_results}

\* C32 -- At most one result is recorded per task attempt: a
\* store_execution_result call for a task that already has a stored result
\* fails as a whole (it raises), and leaves the task's status, the worker's
\* counters and status, and the stored result and performance rows
\* unchanged.
OneResultPerTask ==
    /\ [](\A i, j \in DOMAIN db.execution_results :
            db.execution_results[i].task_id = db.execution_results[j].task_id
                => i = j)
    /\ [][(routed'.op = "store" /\ routed'.task_id \in StoredTasks(db)) =>
            /\ routed'.status = "raised"
            /\ db' = db]_vars

\* C32 witness: a second result was offered for a task that has one, by a
\* registered worker, and the call raised
OneResultPerTaskWitness ==
    /\ routed.op = "store"
    /\ routed.status = "raised"
    /\ routed.agent \in Workers
    /\ db.ai_agents[routed.agent].present
    /\ routed.task_id \in StoredTasks(db)
    /\ routed.task_id \in db.performance_metrics

\* A row of ai_agents whose heartbeat is 30 s old or older, or whose status
\* is failed
StaleOrFailed(row, t) ==
    \/ t - row.last_heartbeat >= AGENT_FRESH_SECONDS
    \/ row.status = "failed"

\* C33 -- Stale workers are excluded from selection: for every requested
\* task type, get_available_agents returns no worker whose last heartbeat
\* is 30 s old or older and no worker whose status is failed, so
\* route_with_fallback never assigns a task to such a worker.
StaleExcluded ==
    /\ [](\A ty \in DrainTypes \cup {"general", "image_generation"} :
            \A a \in get_available_agents_for(pool, ty, now) :
                ~StaleOrFailed(pool.ai_agents[a], now))
    /\ [][\A id \in DrainTaskIds :
            (pool.task_assignments[id] = None /\ pool'.task_assignments[id] # None)
                => ~StaleOrFailed(pool.ai_agents[pool'.task_assignments[id]], now)]_vars

\* C33 witness: a task is assigned to a worker that reported at the current
\* time, and another idle worker of the task's type was last heard 30 s ago
StaleExcludedWitness ==
    /\ now = AGENT_FRESH_SECONDS
    /\ \E id \in DrainTaskIds, a, b \in DrainAgentIds \ {MasterController} :
          /\ pool.task_assignments[id] = a
          /\ pool.ai_agents[a].last_heartbeat = now
          /\ a # b
          /\ pool.ai_agents[b].present
          /\ pool.ai_agents[b].capability = pool.task_type[id]
          /\ pool.ai_agents[b].status = "idle"
          /\ pool.ai_agents[b].last_heartbeat = 0

\* C34 -- No double assignment under concurrency: when two
\* route_with_fallback calls for different tasks run concurrently, they
\* never both return assigned for the same worker; a worker that has been
\* marked busy by one assignment is not assigned a second task until it has
\* returned to idle.
NoDoubleAssignment ==
    [][\A id \in DrainTaskIds :
          (pool.task_assignments[id] = None /\ pool'.task_assignments[id] # None)
              => LET a == pool'.task_assignments[id]
                 IN  ~(/\ a # MasterController
                       /\ pool.ai_agents[a].status = "busy"
                       /\ \E other \in DrainTaskIds \ {id} :
                              pool.task_assignments[other] = a)]_vars

\* C35 -- SmartTaskQueue bookkeeping invariant: after any sequence of
\* enqueue, dequeue and mark_complete calls (with any task id and success
\* flag), no task id appears more than once among the waiting tasks, no
\* task id is both waiting and in the processing set, and every waiting or
\* processing task id is present in task_map.
QueueBookkeeping ==
    /\ \A i, j \in DOMAIN queue : queue[i] = queue[j] => i = j
    /\ \A id \in processing : Waiting(id) = 0
    /\ \A id \in TaskIds : (Waiting(id) > 0 \/ id \in processing) => id \in task_map

\* C36 -- Cache key separation: get(message, context) returns only a value
\* stored by a set whose lowercase-trimmed message equals the get's
\* lowercase-trimmed message and whose lowercase-trimmed context equals the
\* get's (or both have no context); requests that differ in normalized
\* message or in normalized context never read each other's entry.
KeySeparation ==
    (got.op = "get" /\ got.result # NoValue)
        => LET s == lastSet[got.key]
           IN  /\ strip(lower(s.message)) = strip(lower(got.message))
               /\ strip(lower(s.context)) = strip(lower(got.context))

\* C37 -- Performance-tracker record invariant: after any sequence of
\* log_task_result and reset_worker_stats calls, total_tasks = success_count
\* + failure_count, consecutive_failures is at most failure_count and is 0
\* when the latest result was a success, and each rolling history
\* (durations, outcomes, quality scores) is the last 20 entries logged, in
\* arrival order.
RecordInvariant ==
    /\ metrics.total_tasks = metrics.success_count + metrics.failure_count
    /\ metrics.consecutive_failures <= metrics.failure_count
    /\ (arrivals.outcomes # <<>> /\ arrivals.outcomes[Len(arrivals.outcomes)] = 1)
          => metrics.consecutive_failures = 0
    /\ metrics.response_time_history = LastN(arrivals.durations, 20)
    /\ metrics.success_history = LastN(arrivals.outcomes, 20)
    /\ metrics.quality_history = LastN(arrivals.qualities, 20)
    /\ Len(metrics.response_time_history) <= 20
    /\ Len(metrics.success_history) <= 20
    /\ Len(metrics.quality_history) <= 20

\* C37 witness: more than 20 results and more than 20 quality scores were
\* logged, among them a failure that came before a reset and a slow result
\* that is still in the duration history.
RecordInvariantWitness ==
    /\ Len(arrivals.outcomes) > 20
    /\ Len(arrivals.qualities) > 20
    /\ metrics.failure_count > 0
    /\ metrics.last_failure_time = None
    /\ Occurrences(metrics.response_time_history, 2) > 0

\* the trend the claim expects for a history of recorded outcomes: the mean
\* of the last 10 against the mean of the (up to 10) outcomes before them,
\* compared exactly
ClaimedTrend(h) ==
    IF Len(h) < 10 THEN "learning"
    ELSE LET n == Len(h) - 10
             r == SumSeq(LastN(h, 10))
             p == SumSeq(SubSeq(h, 1, n))
         IN  IF n > 0 /\ r * n - 10 * p > n THEN "improving"
             ELSE IF n > 0 /\ r * n - 10 * p < 0 - n THEN "degrading"
             ELSE "stable"

\* C38 -- Trend classification: after each log_task_result,
\* performance_trend is learning when the worker has fewer than 10 recorded
\* outcomes; otherwise it is improving when the mean of the most recent 10
\* outcomes exceeds the mean of the outcomes preceding them (up to 10) by
\* more than 0.1, degrading when it is lower by more than 0.1, and stable
\* otherwise.
TrendClassification ==
    metrics.total_tasks > 0
        => metrics.performance_trend = ClaimedTrend(metrics.success_history)

\* the largest number of recorded tasks of one type
LargestCount == MaxCount(metrics.task_types)

StatsStep ==
    LET removed == Cardinality(KeysOf(cache) \ KeysOf(cache'))
    IN  /\ stats'.evictions = stats.evictions + removed
        /\ IF got'.op = "get"
             THEN /\ (stats'.hits - stats.hits) + (stats'.misses - stats.misses) = 1
                  /\ stats'.hits - stats.hits \in {0, 1}
                  /\ stats'.hits = stats.hits + 1 <=> got'.result # NoValue
             ELSE stats'.hits = stats.hits /\ stats'.misses = stats.misses

\* C40 -- Cache statistics accounting: every get increments exactly one of
\* the hits and misses counters by one (hits when a value is returned,
\* misses otherwise), so hits + misses counts the get calls; saved-calls
\* always equals hits; and evictions counts the entries removed by expiry
\* (in get or clear_expired) or by capacity eviction in set.
StatsAccounting ==
    [](stats.total_saved_calls = stats.hits) /\ [][StatsStep]_vars

\* C40 witness: a get has just found its entry expired and removed it, after
\* an earlier hit and another eviction.
StatsAccountingWitness ==
    /\ got.op = "get"
    /\ got.found
    /\ got.result = NoValue
    /\ stats.hits = 1
    /\ stats.misses = 1
    /\ stats.evictions = 2

=============================================================================
